---- MODULE Spec2Model ----
(***************************************************************************)
(* A model of simple_wbd: the reshaping of World Bank indicator and        *)
(* climate responses into tables (IndicatorDataset, ClimateDataset).       *)
(*                                                                         *)
(* Python strings are sequences of one-character strings, so that prefixes *)
(* (concatenation), joins and lexicographic sorting are computed.  Python  *)
(* values of mixed type (str, float, int, None, date, dict) are records    *)
(* [t, s, n] with a type tag t, a string payload s and a number payload n. *)
(***************************************************************************)
EXTENDS Integers, Sequences, FiniteSets, TLC

VARIABLES
    api_responses,   \* IndicatorDataset.api_responses: <<[indicator, data]>>, in dict order
    ind_result,      \* what the last IndicatorDataset.as_list call returned or raised
    data_map,        \* the sparse map the last IndicatorDataset.as_list call ended with
    cl_responses,    \* ClimateDataset.api_responses: bucket -> response list
    rows,            \* ClimateDataset.rows
    columns,         \* ClimateDataset.columns
    cl_call,         \* the last ClimateDataset call: its name and arguments
    cl_result,       \* what the last ClimateDataset call returned or raised
    cl_calls,        \* the ClimateDataset calls so far, when followed: <<[call, result]>>
    ts_call,         \* the last as_list(time_series, add_metadata) call: its arguments
    ts_result,       \* what that call returned or raised
    wb_input,        \* the argument of parse_wb_date
    wb_date,         \* what parse_wb_date returned or raised for it
    dm_heap,         \* the sparse maps that exist, by object identity: id -> map
    dm_call,         \* the last _get_data_map call: its arguments
    dm_result,       \* what that call returned (the id of a map) or raised
    cache,           \* the cache directory of utils.fetch: url -> [bytes, mtime] of its file
    web,             \* what requests.get(url).text gives now: url -> a text, or an exception
    clock,           \* time.time(), in half days
    fetch_call,      \* the utils.fetch call in progress or finished: its arguments, what it
                     \* found in the cache, whether it asked the web, its result
    fetched,         \* url -> [text, time] of the last web response a fetch of it received
    capi,            \* the ClimateAPI object: its constructor argument, _dataset_class, progress
    gi_call,         \* the get_instrumental call in progress or finished
    ia_call,         \* the last IndicatorAPI call: its name, arguments and what the web answers
    ia_result        \* what that call returned or raised

vars == <<api_responses, ind_result, data_map, cl_responses, rows, columns, cl_call, cl_result, cl_calls,
          ts_call, ts_result, wb_input, wb_date, dm_heap, dm_call, dm_result,
          cache, web, clock, fetch_call, fetched, capi, gi_call, ia_call, ia_result>>

ind_vars == <<api_responses, ind_result, data_map>>

cl_vars == <<cl_responses, rows, columns, cl_call, cl_result, cl_calls>>

ts_vars == <<ts_call, ts_result>>

date_vars == <<wb_input, wb_date>>

dataset_vars == <<ind_vars, cl_vars, ts_vars, date_vars>>

merge_vars == <<dm_heap, dm_call, dm_result>>

fetch_vars == <<cache, web, clock, fetch_call, fetched>>

object_vars == <<capi, gi_call, ia_call, ia_result>>

api_vars == <<fetch_vars, object_vars>>

other_vars == <<merge_vars, api_vars>>

-----------------------------------------------------------------------------
(* Python values *)

\* A str value.
Str(s) == [t |-> "str", s |-> s, n |-> 0]

\* A float value, held in thousandths (1.5 is 1500).
Float(n) == [t |-> "float", s |-> <<>>, n |-> n]

\* An int value.
Int_(n) == [t |-> "int", s |-> <<>>, n |-> n]

\* None (a JSON null).
None == [t |-> "none", s |-> <<>>, n |-> 0]

\* A dict key that is absent.
Missing == [t |-> "missing", s |-> <<>>, n |-> 0]

\* The empty dict {}.
EmptyDict == [t |-> "dict", s |-> <<>>, n |-> 0]

\* datetime.date(year, 1, 1).
Date(year) == [t |-> "date", s |-> <<>>, n |-> year]

\* A list value, and None where a list may stand (rows, columns, an argument).
List(l) == [given |-> TRUE, list |-> l]

NoList == [given |-> FALSE, list |-> <<>>]

\* A call that returned value v (a table is a sequence of rows).
Returned(v) == [kind |-> "return", exc |-> "", value |-> v]

\* A call that raised exception exc.
Raised(exc) == [kind |-> "raise", exc |-> exc, value |-> <<>>]

\* No call yet.
NoCall == [kind |-> "none", exc |-> "", value |-> <<>>]

-----------------------------------------------------------------------------
(* Python strings and their order *)

\* The characters the model's strings use, in code point order.
CharOrder ==
    << " ", "-", ".", "0", "1", "2", "3", "4", "5", "6", "7", "8", "9",
       "A", "B", "C", "D", "N", "Q", "S", "U", "V",
       "a", "b", "c", "d", "e", "h", "i", "l", "m", "n", "o", "p", "r", "s",
       "t", "u", "v", "x", "y" >>

\* ord(c), up to the gaps between the characters in use.
CodeOf ==
    [c \in {CharOrder[i] : i \in 1..Len(CharOrder)} |->
        CHOOSE i \in 1..Len(CharOrder) : CharOrder[i] = c]

Code(c) == CodeOf[c]

\* s < t for two str values: lexicographic by code point.
RECURSIVE StrLess(_, _)
StrLess(s, t) ==
    IF t = <<>> THEN FALSE
    ELSE IF s = <<>> THEN TRUE
    ELSE IF Head(s) = Head(t) THEN StrLess(Tail(s), Tail(t))
    ELSE Code(Head(s)) < Code(Head(t))

\* sorted(set_of_strings): insertion of each element at its place.
RECURSIVE SortedStrs(_)
SortedStrs(S) ==
    IF S = {} THEN <<>>
    ELSE LET m == CHOOSE x \in S : \A y \in S \ {x} : StrLess(x, y)
         IN  <<m>> \o SortedStrs(S \ {m})

\* The separator " - ".
Sep == <<" ", "-", " ">>

-----------------------------------------------------------------------------
(* IndicatorDataset (indicators.py) *)

Digits == {"0", "1", "2", "3", "4", "5", "6", "7", "8", "9"}

\* The number a string of digits writes (0 for the empty string).
RECURSIVE DigitsVal(_)
DigitsVal(s) ==
    IF s = <<>> THEN 0
    ELSE 10 * DigitsVal(SubSeq(s, 1, Len(s) - 1)) + (Code(s[Len(s)]) - Code("0"))

\* float(s) for a str s: [ok, n], n in thousandths; ok is FALSE where float
\* raises ValueError.  The grammar is an optional "-", digits, at most one
\* "." among them and at least one digit; up to three decimals are kept.
FloatOf(s) ==
    LET neg  == s /= <<>> /\ Head(s) = "-"
        body == IF neg THEN Tail(s) ELSE s
        dots == {i \in 1..Len(body) : body[i] = "."}
        good == /\ Cardinality(dots) <= 1
                /\ \A i \in 1..Len(body) : body[i] \in Digits \cup {"."}
                /\ \E i \in 1..Len(body) : body[i] \in Digits
    IN  IF ~good THEN [ok |-> FALSE, n |-> 0]
        ELSE LET dot  == IF dots = {} THEN Len(body) + 1 ELSE CHOOSE i \in dots : TRUE
                 ip   == SubSeq(body, 1, dot - 1)
                 fr   == SubSeq(body, dot + 1, Len(body))
                 fr3  == SubSeq(fr \o <<"0", "0", "0">>, 1, 3)
                 mag  == DigitsVal(ip) * 1000 + DigitsVal(fr3)
             IN  [ok |-> TRUE, n |-> IF neg THEN 0 - mag ELSE mag]

\* A variant of _parse_value: an unparseable value becomes 0.0.
parse_value_zero(value) ==
    IF value.t \in {"none", "missing"} THEN None
    ELSE LET f == FloatOf(value.s) IN IF f.ok THEN Float(f.n) ELSE Float(0)

\* A variant of _parse_value: an empty value counts as zero.
parse_value_blank_zero(value) ==
    IF value.t \in {"none", "missing"} THEN None
    ELSE IF value.s = <<>> THEN Float(0)
    ELSE LET f == FloatOf(value.s) IN IF f.ok THEN Float(f.n) ELSE None

\* IndicatorDataset._parse_value: None for None, float(value), and None (the
\* function falls off its end) where float raises ValueError.
parse_value(value) ==
    IF value.t \in {"none", "missing"} THEN None
    ELSE LET f == FloatOf(value.s) IN IF f.ok THEN Float(f.n) ELSE None

\* The empty dict.
EmptyMap == [k \in {} |-> 0]

\* A variant of MapPut: the country's entry is replaced by one that holds
\* the new date only.
MapPutNewInner(m, c, d, v) ==
    [k \in DOMAIN m \cup {c} |-> IF k = c THEN [j \in {d} |-> v] ELSE m[k]]

\* m[c][d] = v on the nested defaultdict m.
MapPut(m, c, d, v) ==
    LET inner == IF c \in DOMAIN m THEN m[c] ELSE EmptyMap
        put   == [j \in DOMAIN inner \cup {d} |-> IF j = d THEN v ELSE inner[j]]
    IN  [k \in DOMAIN m \cup {c} |-> IF k = c THEN put ELSE m[k]]

\* One iteration of the loop of _get_data_map, on the state [exc, map].
\* "country": null has no get (AttributeError); a null date cannot be added
\* to the prefix (TypeError); an absent key reads as "".
DataMapStep(st, datapoint, country_prefix, date_prefix) ==
    IF st.exc /= "" THEN st
    ELSE IF datapoint.country.t = "none" THEN [st EXCEPT !.exc = "AttributeError"]
    ELSE IF datapoint.date.t = "none" THEN [st EXCEPT !.exc = "TypeError"]
    ELSE LET country == datapoint.country.s
             date    == datapoint.date.s
         IN  [st EXCEPT !.map = MapPut(st.map, country_prefix \o country,
                                       date_prefix \o date,
                                       parse_value(datapoint.value))]

\* IndicatorDataset._get_data_map(data, data_map, country_prefix, date_prefix):
\* the records of data written, in order, into data_map.
RECURSIVE get_data_map(_, _, _, _)
get_data_map(data, st, country_prefix, date_prefix) ==
    IF data = <<>> THEN st
    ELSE get_data_map(Tail(data),
                      DataMapStep(st, Head(data), country_prefix, date_prefix),
                      country_prefix, date_prefix)

\* A variant of _get_all_dates: the dates in the order of their first country,
\* not sorted over all countries.
get_all_dates_per_country(m) ==
    LET cs == SortedStrs(DOMAIN m)
        F[i \in 0..Len(cs)] ==
            IF i = 0 THEN <<>>
            ELSE F[i - 1] \o SortedStrs(DOMAIN m[cs[i]] \ {F[i - 1][j] : j \in 1..Len(F[i - 1])})
    IN  F[Len(cs)]

\* IndicatorDataset._get_all_dates
get_all_dates(m) == SortedStrs(UNION {DOMAIN m[c] : c \in DOMAIN m})

\* IndicatorDataset._get_all_countries
get_all_countries(m) == SortedStrs(DOMAIN m)

\* A variant of DefaultGet: a missing entry reads as None.
DefaultGetNone(m, c, d) == IF d \in DOMAIN m[c] THEN m[c][d] ELSE None

\* data_map[country][date] on defaultdict(lambda: defaultdict(float)): the
\* value read; a missing entry reads as float() = 0.0.
DefaultGet(m, c, d) == IF d \in DOMAIN m[c] THEN m[c][d] ELSE Float(0)

\* The map after the reads of the table loop: each read of a missing entry
\* has inserted the default it returned.
Densified(m, all_dates) ==
    [c \in DOMAIN m |->
        [d \in DOMAIN m[c] \cup {all_dates[j] : j \in 1..Len(all_dates)} |->
            DefaultGet(m, c, d)]]

Country == <<"C", "o", "u", "n", "t", "r", "y">>

\* The table both list builders make of a data map: the header row, then one
\* row per country.
ResponseOf(m) ==
    LET all_dates     == get_all_dates(m)
        all_countries == get_all_countries(m)
        headers       == <<Str(Country)>> \o [j \in 1..Len(all_dates) |-> Str(all_dates[j])]
    IN  <<headers>> \o
        [i \in 1..Len(all_countries) |->
            <<Str(all_countries[i])>> \o
            [j \in 1..Len(all_dates) |-> DefaultGet(m, all_countries[i], all_dates[j])]]

\* The outcome [result, map] of a list builder whose merge ended in state st.
ListOutcome(st) ==
    IF st.exc /= "" THEN [result |-> Raised(st.exc), map |-> EmptyMap]
    ELSE [result |-> Returned(ResponseOf(st.map)),
          map |-> Densified(st.map, get_all_dates(st.map))]

NewMap == [exc |-> "", map |-> EmptyMap]

\* IndicatorDataset._get_single_response_list
get_single_response_list(data) ==
    ListOutcome(get_data_map(data, NewMap, <<>>, <<>>))

\* A variant of MergeAll: the dates are not prefixed.
RECURSIVE MergeAllNoPrefix(_, _)
MergeAllNoPrefix(response_data, st) ==
    IF response_data = <<>> THEN st
    ELSE MergeAllNoPrefix(Tail(response_data),
                  get_data_map(Head(response_data).data, st, <<>>, <<>>))

\* A variant of MergeAll: the prefix is given as the country prefix.
RECURSIVE MergeAllSwappedPrefix(_, _)
MergeAllSwappedPrefix(response_data, st) ==
    IF response_data = <<>> THEN st
    ELSE MergeAllSwappedPrefix(Tail(response_data),
                  get_data_map(Head(response_data).data, st,
                               Head(response_data).indicator \o Sep, <<>>))

\* The loop of _get_responses_list: every indicator's data merged into one
\* map, its dates prefixed with indicator + " - ".
RECURSIVE MergeAll(_, _)
MergeAll(response_data, st) ==
    IF response_data = <<>> THEN st
    ELSE MergeAll(Tail(response_data),
                  get_data_map(Head(response_data).data, st, <<>>,
                               Head(response_data).indicator \o Sep))

\* IndicatorDataset._get_responses_list
get_responses_list(response_data) == ListOutcome(MergeAll(response_data, NewMap))

\* A variant of ind_as_list: no indicator is merged like many.
ind_as_list_always_merges(responses) ==
    IF Len(responses) = 1 THEN get_single_response_list(responses[1].data)
    ELSE get_responses_list(responses)

\* IndicatorDataset.as_list: [result, map].
ind_as_list(responses) ==
    IF Len(responses) = 1 THEN get_single_response_list(responses[1].data)
    ELSE IF Len(responses) > 1 THEN get_responses_list(responses)
    ELSE [result |-> Returned(<<>>), map |-> EmptyMap]


-----------------------------------------------------------------------------
(* ClimateDataset (climate.py) *)

K_country == <<"c", "o", "u", "n", "t", "r", "y">>

K_type == <<"t", "y", "p", "e">>

K_interval == <<"i", "n", "t", "e", "r", "v", "a", "l">>

K_year == <<"y", "e", "a", "r">>

K_month == <<"m", "o", "n", "t", "h">>

K_decade == <<"d", "e", "c", "a", "d", "e">>

K_data == <<"d", "a", "t", "a">>

\* ClimateDataset.KEYS
KEYS == <<K_country, K_type, K_interval>>

Range(seq) == {seq[i] : i \in 1..Len(seq)}

\* No ClimateDataset call yet.
NoClimateCall == [op |-> "none", columns |-> NoList, use_dates |-> FALSE]

\* self._time_key_map.get(interval, interval), with _time_key_map = {"decade": "year"}
time_key(interval) == IF interval = K_decade THEN K_year ELSE interval

\* A variant of BucketStep: the first record of a key wins.
BucketStepFirstWins(st, value, interval) ==
    IF st.exc /= "" THEN st
    ELSE IF time_key(interval) \notin DOMAIN value \/ K_data \notin DOMAIN value
         THEN [st EXCEPT !.exc = "KeyError"]
    ELSE LET t == value[time_key(interval)]
         IN  IF t \in DOMAIN st.map THEN st
             ELSE [st EXCEPT !.map = [k \in DOMAIN st.map \cup {t} |->
                                        IF k = t THEN value[K_data] ELSE st.map[k]]]

\* value_data[value[time_key]] = value["data"] for one record of a bucket, on
\* the state [exc, map]; a record without the field raises KeyError.
BucketStep(st, value, interval) ==
    IF st.exc /= "" THEN st
    ELSE IF time_key(interval) \notin DOMAIN value \/ K_data \notin DOMAIN value
         THEN [st EXCEPT !.exc = "KeyError"]
    ELSE LET t == value[time_key(interval)]
         IN  [st EXCEPT !.map = [k \in DOMAIN st.map \cup {t} |->
                                    IF k = t THEN value[K_data] ELSE st.map[k]]]

\* The inner loop of as_dict over one bucket's response list.
RECURSIVE BucketMap(_, _, _)
BucketMap(response, st, interval) ==
    IF response = <<>> THEN st
    ELSE BucketMap(Tail(response), BucketStep(st, Head(response), interval), interval)

\* ClimateDataset.as_dict: [exc, map]; map[<<country, type, interval>>][t] is
\* result[country][type][interval][t].  Every bucket gets its (maybe empty)
\* entry; only the "response" of a bucket is read.
as_dict(responses) ==
    LET per == [b \in DOMAIN responses |->
                    BucketMap(responses[b].response, NewMap, b[3])]
    IN  IF \E b \in DOMAIN per : per[b].exc /= ""
        THEN [exc |-> "KeyError", map |-> EmptyMap]
        ELSE [exc |-> "", map |-> [b \in DOMAIN per |-> per[b].map]]

\* ClimateDataset._gather_keys and _get_all_keys: per axis name, the set of
\* its observed items, each item as the list flaten makes of it.
get_all_keys(dict_) ==
    [a \in Range(KEYS) |->
        IF a = K_country THEN {<<Str(b[1])>> : b \in DOMAIN dict_}
        ELSE IF a = K_type THEN {<<Str(b[2])>> : b \in DOMAIN dict_}
        ELSE UNION {{<<Str(b[3]), Int_(k)>> : k \in DOMAIN dict_[b]} : b \in DOMAIN dict_}]

\* [utils.flaten(item) for item in product(*[all_keys[a] for a in axes])]
RECURSIVE ProductItems(_, _)
ProductItems(all_keys, axes) ==
    IF axes = <<>> THEN {<<>>}
    ELSE {x \o rest : x \in all_keys[Head(axes)], rest \in ProductItems(all_keys, Tail(axes))}

\* str(n) for an int n >= 0.
RECURSIVE IntToStr(_)
IntToStr(n) ==
    IF n < 10 THEN <<CharOrder[Code("0") + n]>>
    ELSE IntToStr(n \div 10) \o <<CharOrder[Code("0") + (n % 10)]>>

\* str(s) for a list element.
ElemToStr(x) == IF x.t = "int" THEN IntToStr(x.n) ELSE x.s

\* A variant of ElemLess: interval keys compare as their decimal strings.
ElemLessAsText(a, b) == StrLess(ElemToStr(a), ElemToStr(b))

\* a < b for two list elements: two str or two int.
ElemLess(a, b) == IF a.t = "str" THEN StrLess(a.s, b.s) ELSE a.n < b.n

\* a < b for two lists: lexicographic.
RECURSIVE ListLess(_, _)
ListLess(a, b) ==
    IF b = <<>> THEN FALSE
    ELSE IF a = <<>> THEN TRUE
    ELSE IF Head(a) = Head(b) THEN ListLess(Tail(a), Tail(b))
    ELSE ElemLess(Head(a), Head(b))

\* sorted(items) for a set of lists.
RECURSIVE SortedLists(_)
SortedLists(S) ==
    IF S = {} THEN <<>>
    ELSE LET m == CHOOSE x \in S : \A y \in S \ {x} : ListLess(x, y)
         IN  <<m>> \o SortedLists(S \ {m})

\* list.index(x), from 1.
IndexOf(seq, x) == CHOOSE i \in 1..Len(seq) : seq[i] = x /\ \A j \in 1..(i - 1) : seq[j] /= x

\* seq[-2:]
LastTwo(seq) == SubSeq(seq, IF Len(seq) > 2 THEN Len(seq) - 1 ELSE 1, Len(seq))

\* ClimateDataset._get_level_key, as a list: the two last elements of the
\* label for "interval", the element at the axis' index otherwise.
get_level_key(row, column, key_name, rows_, columns_) ==
    IF key_name \in Range(rows_)
    THEN IF key_name = K_interval THEN LastTwo(row)
         ELSE <<row[IndexOf(rows_, key_name)]>>
    ELSE IF key_name = K_interval THEN LastTwo(column)
         ELSE <<column[IndexOf(columns_, key_name)]>>

\* A variant of Lookup: the interval level is read under the name of its
\* time field, so that a decade is read from the year bucket.
LookupByTimeKey(dict_, country, type_, interval, interval_key) ==
    IF /\ country.t = "str" /\ type_.t = "str" /\ interval.t = "str" /\ interval_key.t = "int"
       /\ <<country.s, type_.s, time_key(interval.s)>> \in DOMAIN dict_
       /\ interval_key.n \in DOMAIN dict_[<<country.s, type_.s, time_key(interval.s)>>]
    THEN Int_(dict_[<<country.s, type_.s, time_key(interval.s)>>][interval_key.n])
    ELSE EmptyDict

\* dict_[country][type_][interval][interval_key] on the nested defaultdict
\* that as_dict returns: the stored data, and the {} that the innermost
\* defaultdict(dict) makes for a key it does not hold.
Lookup(dict_, country, type_, interval, interval_key) ==
    IF /\ country.t = "str" /\ type_.t = "str" /\ interval.t = "str" /\ interval_key.t = "int"
       /\ <<country.s, type_.s, interval.s>> \in DOMAIN dict_
       /\ interval_key.n \in DOMAIN dict_[<<country.s, type_.s, interval.s>>]
    THEN Int_(dict_[<<country.s, type_.s, interval.s>>][interval_key.n])
    ELSE EmptyDict

\* ClimateDataset._join: " - ".join(str(s) for s in utils.flaten(strings))
RECURSIVE Join(_)
Join(strings) ==
    IF strings = <<>> THEN <<>>
    ELSE IF Len(strings) = 1 THEN ElemToStr(strings[1])
    ELSE ElemToStr(strings[1]) \o Sep \o Join(Tail(strings))

\* The cell at a row label and a column label, as _generate_list fills it.
FillCell(dict_, row, column, rows_, columns_) ==
    LET iv       == get_level_key(row, column, K_interval, rows_, columns_)
        country  == get_level_key(row, column, K_country, rows_, columns_)[1]
        type_    == get_level_key(row, column, K_type, rows_, columns_)[1]
    IN  Lookup(dict_, country, type_, iv[1], iv[2])

\* A variant of RowHead: a date for a label that holds "year" at any place.
RowHeadAnyYear(row, use_dates) ==
    IF use_dates /\ \E i \in 1..(Len(row) - 1) : row[i] = Str(K_year)
    THEN Date(row[(CHOOSE i \in 1..(Len(row) - 1) : row[i] = Str(K_year)) + 1].n)
    ELSE Str(Join(row))

\* The first cell of a row: a date for a label that starts with "year" when
\* use_dates is set, the joined label otherwise.
RowHead(row, use_dates) ==
    IF use_dates /\ row[1] = Str(K_year) THEN Date(row[2].n) ELSE Str(Join(row))

\* ClimateDataset._generate_empty_array and _generate_list.
generate_list(responses, rows_, columns_, use_dates) ==
    LET d == as_dict(responses)
    IN  IF d.exc /= "" THEN Raised(d.exc)
        ELSE
        LET all_keys     == get_all_keys(d.map)
            row_items    == SortedLists(ProductItems(all_keys, rows_))
            column_items == SortedLists(ProductItems(all_keys, columns_))
            header       == <<RowHead([i \in 1..Len(rows_) |-> Str(rows_[i])], use_dates)>> \o
                            [j \in 1..Len(column_items) |-> Str(Join(column_items[j]))]
        IN  Returned(
                <<header>> \o
                [i \in 1..Len(row_items) |->
                    <<RowHead(row_items[i], use_dates)>> \o
                    [j \in 1..Len(column_items) |->
                        FillCell(d.map, row_items[i], column_items[j], rows_, columns_)]])

\* A variant of AxesOf: the rows leave out the first column axis only.
AxesOfFirstColumn(columns_arg) ==
    IF ~columns_arg.given \/ columns_arg.list = <<>>
    THEN [columns |-> <<K_type, K_interval>>, rows |-> <<K_country>>]
    ELSE [columns |-> columns_arg.list,
          rows |-> SelectSeq(KEYS, LAMBDA key : key /= columns_arg.list[1])]

\* A variant of AxesOf: without an argument, the rows and columns an earlier
\* call has set are kept.
AxesOfKeptWhenSet(columns_arg) ==
    IF ~columns_arg.given \/ columns_arg.list = <<>>
    THEN IF columns.given THEN [columns |-> columns.list, rows |-> rows.list]
         ELSE [columns |-> <<K_type, K_interval>>, rows |-> <<K_country>>]
    ELSE [columns |-> columns_arg.list,
          rows |-> SelectSeq(KEYS, LAMBDA key : key \notin Range(columns_arg.list))]

\* The rows and columns as_list sets from its argument.
AxesOf(columns_arg) ==
    IF ~columns_arg.given \/ columns_arg.list = <<>>
    THEN [columns |-> <<K_type, K_interval>>, rows |-> <<K_country>>]
    ELSE [columns |-> columns_arg.list,
          rows |-> SelectSeq(KEYS, LAMBDA key : key \notin Range(columns_arg.list))]

\* A variant of ValidColumns: any subset passes, the whole set too.
ValidColumnsSubset(columns_) == Range(columns_) \subseteq Range(KEYS)

\* set(self.columns) < set(self.KEYS)
ValidColumns(columns_) == Range(columns_) \subseteq Range(KEYS) /\ Range(columns_) /= Range(KEYS)

\* ClimateDataset.as_list: [rows, columns, result].
cl_as_list(responses, columns_arg, use_dates) ==
    LET axes == AxesOf(columns_arg)
    IN  [rows |-> List(axes.rows), columns |-> List(axes.columns),
         result |-> IF ~ValidColumns(axes.columns) THEN Raised("TypeError")
                    ELSE generate_list(responses, axes.rows, axes.columns, use_dates)]


-----------------------------------------------------------------------------
(* utils.parse_wb_date (utils.py) *)

\* A datetime.date(year, month, 1).
WbDate(year, month) == [t |-> "wbdate", s |-> <<>>, n |-> year * 100 + month]

\* str.upper, on the characters in use.
UpperChar(c) ==
    IF c = "q" THEN "Q" ELSE IF c = "m" THEN "M" ELSE IF c = "x" THEN "X" ELSE c

Upper(s) == [i \in 1..Len(s) |-> UpperChar(s[i])]

\* s[a:b] of Python, a and b from 0 and within or beyond the string.
Slice(s, a, b) == SubSeq(s, a + 1, IF b < Len(s) THEN b ELSE Len(s))

\* str.strip, as int() applies it: the spaces at both ends removed.
RECURSIVE Strip(_)
Strip(s) ==
    IF s /= <<>> /\ Head(s) = " " THEN Strip(Tail(s))
    ELSE IF s /= <<>> /\ s[Len(s)] = " " THEN Strip(SubSeq(s, 1, Len(s) - 1))
    ELSE s

\* int(s) for a str s: [ok, n]; ok is FALSE where int raises ValueError.
\* Spaces around, one sign, digits, single underscores between digits.
PyInt(s) ==
    LET t      == Strip(s)
        signed == t /= <<>> /\ Head(t) \in {"+", "-"}
        body   == IF signed THEN Tail(t) ELSE t
        good   == /\ body /= <<>>
                  /\ \A i \in 1..Len(body) : body[i] \in Digits \cup {"_"}
                  /\ body[1] \in Digits /\ body[Len(body)] \in Digits
                  /\ \A i \in 1..(Len(body) - 1) : ~(body[i] = "_" /\ body[i + 1] = "_")
        mag    == DigitsVal(SelectSeq(body, LAMBDA c : c \in Digits))
    IN  IF ~good THEN [ok |-> FALSE, n |-> 0]
        ELSE [ok |-> TRUE, n |-> IF signed /\ Head(t) = "-" THEN 0 - mag ELSE mag]

\* The outcome of a statement of the try block: an exception or a value.
Threw(exc) == [exc |-> exc, n |-> 0]

Gave(n) == [exc |-> "", n |-> n]

\* int(...) as a statement.
IntOf(s) == IF PyInt(s).ok THEN Gave(PyInt(s).n) ELSE Threw("ValueError")

\* A variant of MonthOf: a quarter gives its last month.
MonthOfQuarterEnd(u) ==
    IF Len(u) = 4 THEN Gave(1)
    ELSE IF Len(u) < 5 THEN Threw("IndexError")
    ELSE IF u[5] = "Q"
         THEN IF Len(u) < 6 THEN Threw("IndexError")
              ELSE IF IntOf(<<u[6]>>).exc /= "" THEN IntOf(<<u[6]>>)
              ELSE Gave(IntOf(<<u[6]>>).n * 3)
    ELSE IF u[5] = "M" THEN IntOf(Slice(u, 5, 7))
    ELSE Threw("UnboundLocalError")

\* The month the try block computes for the upper-cased string u.
MonthOf(u) ==
    IF Len(u) = 4 THEN Gave(1)
    ELSE IF Len(u) < 5 THEN Threw("IndexError")
    ELSE IF u[5] = "Q"
         THEN IF Len(u) < 6 THEN Threw("IndexError")
              ELSE IF IntOf(<<u[6]>>).exc /= "" THEN IntOf(<<u[6]>>)
              ELSE Gave(IntOf(<<u[6]>>).n * 3 - 2)
    ELSE IF u[5] = "M" THEN IntOf(Slice(u, 5, 7))
    ELSE Threw("UnboundLocalError")

\* The try block of parse_wb_date: [exc, value].
wb_date_try(date_string) ==
    IF date_string.t /= "str" THEN [exc |-> "AttributeError", value |-> None]
    ELSE LET u     == Upper(date_string.s)
             year  == IntOf(Slice(u, 0, 4))
             month == MonthOf(u)
         IN  IF year.exc /= "" THEN [exc |-> year.exc, value |-> None]
             ELSE IF month.exc /= "" THEN [exc |-> month.exc, value |-> None]
             ELSE IF year.n < 1 \/ year.n > 9999 \/ month.n < 1 \/ month.n > 12
                  THEN [exc |-> "ValueError", value |-> None]
             ELSE [exc |-> "", value |-> WbDate(year.n, month.n)]

\* A variant of parse_wb_date: only ValueError is caught.
parse_wb_date_value_errors(date_string) ==
    LET r == wb_date_try(date_string)
    IN  IF r.exc = "" THEN Returned(r.value)
        ELSE IF r.exc = "ValueError" THEN Returned(None)
        ELSE Raised(r.exc)

\* utils.parse_wb_date: the bare except turns every exception into None.
parse_wb_date(date_string) ==
    LET r == wb_date_try(date_string)
    IN  IF r.exc = "" THEN Returned(r.value) ELSE Returned(None)

-----------------------------------------------------------------------------
(* as_list(time_series, add_metadata) of the indicator table builder: the   *)
(* orientation and metadata options, which indicators.py does not hold.    *)

Date_ == <<"D", "a", "t", "e">>

\* The names of the metadata columns, in their fixed order.
MetadataColumns ==
    << <<"C", "o", "u", "n", "t", "r", "y">>, <<"R", "e", "g", "i", "o", "n">>,
       <<"A", "d", "m", "i", "n", "R", "e", "g", "i", "o", "n">>,
       <<"I", "n", "c", "o", "m", "e", "L", "e", "v", "e", "l">>,
       <<"L", "o", "n", "g", "i", "t", "u", "d", "e">>,
       <<"L", "a", "t", "i", "t", "u", "d", "e">>,
       <<"L", "e", "n", "d", "i", "n", "g", "T", "y", "p", "e">> >>

\* A nested {id, value} metadata structure.
Nested(id, value) == [t |-> "nested", s |-> value, n |-> id]

\* A metadata value as a cell: the "value" member of a nested structure,
\* the value itself otherwise.
MetadataCell(v) == IF v.t = "nested" THEN Str(v.s) ELSE v

\* The merge of every indicator with the country keys prefixed.
RECURSIVE MergeAllByCountry(_, _)
MergeAllByCountry(response_data, st) ==
    IF response_data = <<>> THEN st
    ELSE MergeAllByCountry(Tail(response_data),
                  get_data_map(Head(response_data).data, st,
                               Head(response_data).indicator \o Sep, <<>>))

\* The sparse map of the call: one indicator unprefixed, several merged with
\* the prefix on the country keys (time series) or on the date keys.
OptionsMap(responses, time_series) ==
    IF Len(responses) = 1 THEN get_data_map(responses[1].data, NewMap, <<>>, <<>>)
    ELSE IF time_series THEN MergeAllByCountry(responses, NewMap)
    ELSE MergeAll(responses, NewMap)

\* Rows become columns.
Transpose(grid) ==
    [j \in 1..Len(grid[1]) |-> [i \in 1..Len(grid) |-> grid[i][j]]]

\* The leading column below the header converted by parse_wb_date.
WithDates(grid) ==
    [i \in 1..Len(grid) |->
        IF i = 1 THEN grid[i]
        ELSE <<parse_wb_date(grid[i][1]).value>> \o Tail(grid[i])]

\* The time series orientation: the header cell is "Date", the grid is
\* transposed, then the date labels are converted.
TimeSeriesOf(grid) ==
    WithDates(Transpose(<<(<<Str(Date_)>> \o Tail(grid[1]))>> \o Tail(grid)))

\* The metadata columns in place of the country label of each row: the name
\* and the six other columns of the country, None for an unknown country.
WithMetadata(grid, metadata) ==
    [i \in 1..Len(grid) |->
        (IF i = 1 THEN [k \in 1..Len(MetadataColumns) |-> Str(MetadataColumns[k])]
         ELSE IF grid[i][1].s \in DOMAIN metadata
              THEN [k \in 1..Len(MetadataColumns) |-> MetadataCell(metadata[grid[i][1].s][k])]
              ELSE [k \in 1..Len(MetadataColumns) |-> None])
        \o Tail(grid[i])]

\* A variant of as_list_options: time series with metadata is answered like
\* a time series.
as_list_options_ignoring_metadata(responses, time_series, add_metadata, metadata) ==
    IF Len(responses) = 0 THEN Returned(<<>>)
    ELSE LET st == OptionsMap(responses, time_series)
         IN  IF st.exc /= "" THEN Raised(st.exc)
             ELSE IF time_series THEN Returned(TimeSeriesOf(ResponseOf(st.map)))
             ELSE IF add_metadata THEN Returned(WithMetadata(ResponseOf(st.map), metadata))
             ELSE Returned(ResponseOf(st.map))

\* as_list(time_series, add_metadata): the table of the call.
as_list_options(responses, time_series, add_metadata, metadata) ==
    IF time_series /\ add_metadata THEN Returned(<<>>)
    ELSE IF Len(responses) = 0 THEN Returned(<<>>)
    ELSE LET st == OptionsMap(responses, time_series)
         IN  IF st.exc /= "" THEN Raised(st.exc)
             ELSE IF time_series THEN Returned(TimeSeriesOf(ResponseOf(st.map)))
             ELSE IF add_metadata THEN Returned(WithMetadata(ResponseOf(st.map), metadata))
             ELSE Returned(ResponseOf(st.map))

-----------------------------------------------------------------------------
(* The indicator datasets the model ranges over *)

\* The most datapoints a dataset holds, over all its indicators.
MaxRecords == 2

\* Indicator ids; one holds the separator itself.
Indicators == { <<"a">>, <<"a", " ", "-", " ", "b">> }

Countries == { <<"B", "e">>, <<"B", "r">> }

\* World Bank date labels (a year, a quarter).
Dates == { <<"1", "9", "9", "8">>, <<"2", "0", "0", "0", "Q", "1">> }

\* Reported values: null, a non-numeric string, numbers.
Values == { None, Str(<<"x">>), Str(<<"1", ".", "5">>) }

WellFormedRecords ==
    [country : {Str(c) : c \in Countries}, date : {Str(d) : d \in Dates}, value : Values]

Records == WellFormedRecords

SeqsUpTo(S, n) == UNION {[1..k -> S] : k \in 0..n}

\* Every api_responses dict of at most two indicators and n datapoints, in
\* each insertion order of its keys.
IndicatorInputs(n) ==
    {<<>>}
    \cup {<<[indicator |-> i, data |-> d]>> :
            i \in Indicators, d \in SeqsUpTo(Records, n)}
    \cup UNION {
            {<<[indicator |-> i, data |-> d], [indicator |-> j, data |-> e]>> :
                e \in SeqsUpTo(Records, n - Len(d))} :
            <<i, j, d>> \in {x \in Indicators \X Indicators \X SeqsUpTo(Records, n) :
                                x[1] /= x[2]} }

-----------------------------------------------------------------------------
(* The parts of the state a dataset under study leaves idle *)

\* No as_list(time_series, add_metadata) call has been made.
NoTableCall ==
    [called |-> FALSE, time_series |-> FALSE, add_metadata |-> FALSE, metadata |-> EmptyMap]

NoTableCallYet == ts_call = NoTableCall /\ ts_result = NoCall

\* No parse_wb_date call is in sight.
NoDateYet == wb_input = None /\ wb_date = NoCall

\* No _get_data_map call of its own is in sight.
NoMergeCall == [called |-> FALSE, data |-> <<>>, data_map |-> 0,
                country_prefix |-> <<>>, date_prefix |-> <<>>]

NoMergeYet == dm_heap = <<>> /\ dm_call = NoMergeCall /\ dm_result = NoCall

\* No utils.fetch call is in sight.
NoFetch == [pc |-> "idle", url |-> <<>>, use_cache |-> FALSE, found |-> "none",
            requested |-> FALSE, result |-> NoCall]

NoFetchYet ==
    /\ cache = EmptyMap
    /\ web = EmptyMap
    /\ clock = 0
    /\ fetch_call = NoFetch
    /\ fetched = EmptyMap

\* No ClimateAPI or IndicatorAPI object is in sight.
NoObjectYet ==
    /\ capi = [made |-> FALSE, class_ |-> <<>>, exc |-> "", dataset_class |-> <<>>,
               pages |-> 0, current_page |-> 0]
    /\ gi_call = [pc |-> "idle", locations |-> <<>>, data_types |-> NoList,
                  intervals |-> NoList, todo |-> <<>>, stored |-> {}, result |-> NoCall]
    /\ ia_call = [op |-> "none"]
    /\ ia_result = NoCall

\* No part of the API layer is in sight.
NoApiYet == NoFetchYet /\ NoObjectYet

\* Nothing but the dataset under study is in sight.
NothingElseYet == NoMergeYet /\ NoApiYet

-----------------------------------------------------------------------------
(* IndicatorDataset as a state machine *)

\* IndicatorDataset.__init__, with no call of ClimateDataset in sight.
InitIndicator ==
    /\ api_responses \in IndicatorInputs(MaxRecords)
    /\ ind_result = NoCall
    /\ data_map = EmptyMap
    /\ cl_responses = EmptyMap
    /\ rows = NoList
    /\ columns = NoList
    /\ cl_call = NoClimateCall
    /\ cl_result = NoCall
    /\ cl_calls = <<>>
    /\ NoTableCallYet
    /\ NoDateYet
    /\ NothingElseYet

\* A call of IndicatorDataset.as_list.
AsList ==
    /\ \E out \in {ind_as_list(api_responses)} :
          /\ ind_result' = out.result
          /\ data_map' = out.map
    /\ UNCHANGED <<api_responses, cl_vars, ts_vars, date_vars, other_vars>>

NextIndicator == AsList

SpecIndicator == InitIndicator /\ [][NextIndicator]_vars

\* Datapoints of any content: every kind of value for one country and date,
\* a second country and date, and a null or an absent country or date.
AnyRecords ==
    [country : {Str(<<"B", "e">>)}, date : {Str(<<"1", "9", "9", "8">>)},
     value : {None, Missing, Str(<<>>), Str(<<"x">>), Str(<<"1", ".", "5">>)}]
    \cup [country : {Str(<<"B", "r">>)}, date : {Str(<<"2", "0", "0", "0", "Q", "1">>)},
          value : {Str(<<"1", ".", "5">>)}]
    \cup [country : {None, Missing}, date : {Str(<<"1", "9", "9", "8">>)},
          value : {Str(<<"1", ".", "5">>)}]
    \cup [country : {Str(<<"B", "e">>)}, date : {None, Missing},
          value : {Str(<<"1", ".", "5">>)}]

\* Every api_responses dict of at most two indicators and n datapoints of
\* any content.
AnyIndicatorInputs(n) ==
    {<<>>}
    \cup {<<[indicator |-> i, data |-> d]>> :
            i \in Indicators, d \in SeqsUpTo(AnyRecords, n)}
    \cup UNION {
            {<<[indicator |-> <<"a">>, data |-> d], [indicator |-> <<"a", " ", "-", " ", "b">>, data |-> e]>> :
                e \in SeqsUpTo(AnyRecords, n - Len(d))} :
            d \in SeqsUpTo(AnyRecords, n) }

\* IndicatorDataset.__init__ on a dataset of any content.
InitIndicatorAny ==
    /\ api_responses \in AnyIndicatorInputs(MaxRecords)
    /\ ind_result = NoCall
    /\ data_map = EmptyMap
    /\ cl_responses = EmptyMap
    /\ rows = NoList
    /\ columns = NoList
    /\ cl_call = NoClimateCall
    /\ cl_result = NoCall
    /\ cl_calls = <<>>
    /\ NoTableCallYet
    /\ NoDateYet
    /\ NothingElseYet

SpecIndicatorAny == InitIndicatorAny /\ [][NextIndicator]_vars

\* The metadata dictionaries of the calls: none, and one known country.
MetadataTables ==
    { EmptyMap,
      [c \in {<<"B", "e">>} |->
          << Str(<<"B", "e", "l", "g", "i", "u", "m">>), Nested(1, <<"E", "u", "r", "o", "p", "e">>),
             Nested(0, <<>>), Nested(2, <<"H", "i", "g", "h">>), Str(<<"4", ".", "4">>),
             Str(<<"5", "0", ".", "8">>), Nested(3, <<"N", "o", "n", "e">>) >>] }

\* A call of as_list(time_series, add_metadata) on the dataset.
AsListOptions ==
    /\ ts_call = NoTableCall
    /\ \E time_series \in BOOLEAN, add_metadata \in BOOLEAN :
       \E metadata \in IF add_metadata THEN MetadataTables ELSE {EmptyMap} :
          /\ ts_call' = [called |-> TRUE, time_series |-> time_series,
                         add_metadata |-> add_metadata, metadata |-> metadata]
          /\ ts_result' = as_list_options(api_responses, time_series, add_metadata, metadata)
    /\ UNCHANGED <<ind_vars, cl_vars, date_vars, other_vars>>

NextIndicatorTable == AsList \/ AsListOptions

\* The dataset with both as_list calls.
SpecIndicatorTable == InitIndicator /\ [][NextIndicatorTable]_vars


-----------------------------------------------------------------------------
(* The climate datasets and calls the model ranges over *)

\* The most entries a climate dataset holds: a bucket counts for each of its
\* records, and an empty bucket for one.
MaxEntries == 2

Locations == { <<"S", "V", "N">>, <<"U", "S", "A">> }

Types == { <<"p", "r">>, <<"t", "a", "s">> }

Intervals == { K_year, K_month, K_decade }

\* Interval keys: two whose numeric and string orders differ.
IntervalKeys == { 9, 10 }

\* The (location, type, interval) buckets, in a fixed order.
BucketOrder == SortedLists({<<Str(l), Str(t), Str(i)>> : l \in Locations, t \in Types, i \in Intervals})

BucketAt(n) == <<BucketOrder[n][1].s, BucketOrder[n][2].s, BucketOrder[n][3].s>>

\* The time field the provider's records of an interval carry.
ProviderField(interval) == IF interval = K_month THEN K_month ELSE K_year

\* The bucket number n with the keys ks: each record carries its key and a
\* data value no other record of the dataset has.
BucketOf(n, ks) ==
    [response |-> [p \in 1..Len(ks) |->
                      (ProviderField(BucketAt(n)[3]) :> ks[p])
                      @@ (K_data :> (n * (MaxEntries + 1) + p))],
     url |-> <<"u", "r", "l">> \o IntToStr(n)]

EntryCount(ks) == IF ks = <<>> THEN 1 ELSE Len(ks)

\* Every dataset over the buckets n.. with at most budget entries.
RECURSIVE DatasetsFrom(_, _)
DatasetsFrom(n, budget) ==
    IF n > Len(BucketOrder) \/ budget = 0 THEN {EmptyMap}
    ELSE DatasetsFrom(n + 1, budget)
         \cup UNION {
                {(BucketAt(n) :> BucketOf(n, ks)) @@ rest :
                    rest \in DatasetsFrom(n + 1, budget - EntryCount(ks))} :
                ks \in SeqsUpTo(IntervalKeys, budget) }

ClimateInputs(budget) == DatasetsFrom(1, budget)

K_bad == <<"A", "A", "A", "A">>

\* The columns arguments: None, the empty list, lists of distinct axis names
\* in either order, and lists with an unknown name.
ColumnArgs ==
    { NoList, List(<<>>),
      List(<<K_country>>), List(<<K_type>>), List(<<K_interval>>),
      List(<<K_country, K_type>>), List(<<K_type, K_country>>),
      List(<<K_type, K_interval>>), List(<<K_interval, K_type>>),
      List(<<K_country, K_interval>>), List(<<K_interval, K_country>>),
      List(<<K_country, K_type, K_interval>>), List(<<K_interval, K_type, K_country>>),
      List(<<K_bad>>), List(<<K_type, K_bad>>) }

-----------------------------------------------------------------------------
(* ClimateDataset as a state machine *)

\* ClimateDataset.__init__, with no IndicatorDataset in sight.
InitClimate ==
    /\ cl_responses \in ClimateInputs(MaxEntries)
    /\ rows = NoList
    /\ columns = NoList
    /\ cl_call = NoClimateCall
    /\ cl_result = NoCall
    /\ cl_calls = <<>>
    /\ api_responses = <<>>
    /\ ind_result = NoCall
    /\ data_map = EmptyMap
    /\ NoTableCallYet
    /\ NoDateYet
    /\ NothingElseYet

\* A call of ClimateDataset.as_list(columns, use_dates) on the new dataset.
ClimateAsList ==
    /\ cl_call = NoClimateCall
    /\ \E columns_arg \in ColumnArgs, use_dates \in BOOLEAN :
          \E out \in {cl_as_list(cl_responses, columns_arg, use_dates)} :
              /\ cl_call' = [op |-> "as_list", columns |-> columns_arg, use_dates |-> use_dates]
              /\ rows' = out.rows
              /\ columns' = out.columns
              /\ cl_result' = out.result
    /\ UNCHANGED <<cl_responses, cl_calls, ind_vars, ts_vars, date_vars, other_vars>>

\* A call of ClimateDataset.as_dict on the new dataset.
ClimateAsDict ==
    /\ cl_call = NoClimateCall
    /\ \E out \in {as_dict(cl_responses)} :
          /\ cl_call' = [op |-> "as_dict", columns |-> NoList, use_dates |-> FALSE]
          /\ cl_result' = IF out.exc /= "" THEN Raised(out.exc) ELSE Returned(out.map)
    /\ UNCHANGED <<cl_responses, rows, columns, cl_calls, ind_vars, ts_vars, date_vars, other_vars>>

NextClimate == ClimateAsList \/ ClimateAsDict

SpecClimate == InitClimate /\ [][NextClimate]_vars


\* The most calls made on one dataset, one after the other.
MaxCalls == 3

\* The as_list calls that follow each other: the default, a time series with
\* dates, and one that raises the configuration error.
FollowedCalls ==
    { [op |-> "as_list", columns |-> NoList, use_dates |-> FALSE],
      [op |-> "as_list", columns |-> List(<<K_country, K_type>>), use_dates |-> TRUE],
      [op |-> "as_list", columns |-> List(<<K_bad>>), use_dates |-> FALSE] }

\* ClimateDataset.__init__ of a dataset on which calls follow each other.
InitClimateCalls ==
    /\ cl_responses \in ClimateInputs(MaxEntries - 1)
    /\ rows = NoList
    /\ columns = NoList
    /\ cl_call = NoClimateCall
    /\ cl_result = NoCall
    /\ cl_calls = <<>>
    /\ api_responses = <<>>
    /\ ind_result = NoCall
    /\ data_map = EmptyMap
    /\ NoTableCallYet
    /\ NoDateYet
    /\ NothingElseYet

\* A further call of ClimateDataset.as_list(columns, use_dates).
ClimateAsListAgain ==
    /\ Len(cl_calls) < MaxCalls
    /\ \E call \in FollowedCalls :
          \E out \in {cl_as_list(cl_responses, call.columns, call.use_dates)} :
              /\ cl_call' = call
              /\ rows' = out.rows
              /\ columns' = out.columns
              /\ cl_result' = out.result
              /\ cl_calls' = Append(cl_calls, [call |-> call, result |-> out.result])
    /\ UNCHANGED <<cl_responses, ind_vars, ts_vars, date_vars, other_vars>>

\* A further call of ClimateDataset.as_dict.
ClimateAsDictAgain ==
    /\ Len(cl_calls) < MaxCalls
    /\ \E out \in {as_dict(cl_responses)} :
          /\ cl_call' = [op |-> "as_dict", columns |-> NoList, use_dates |-> FALSE]
          /\ cl_result' = IF out.exc /= "" THEN Raised(out.exc) ELSE Returned(out.map)
          /\ cl_calls' = Append(cl_calls, [call |-> cl_call', result |-> cl_result'])
    /\ UNCHANGED <<cl_responses, rows, columns, ind_vars, ts_vars, date_vars, other_vars>>

NextClimateCalls == ClimateAsListAgain \/ ClimateAsDictAgain

SpecClimateCalls == InitClimateCalls /\ [][NextClimateCalls]_vars


-----------------------------------------------------------------------------
(* parse_wb_date as a state machine *)

\* The most characters that follow a label.
MaxGarbage == 1

\* The year parts of the labels: years, and four characters that are none.
YearParts ==
    { <<"2", "0", "0", "0">>, <<"1", "9", "9", "8">>, <<"2", "0", "0", "-">>, <<" ", "2", "0", "0">> }

\* What follows the year: nothing, a quarter, a month, in and out of range,
\* in either case, or cut short.
PeriodParts ==
    {<<>>, <<"Q">>, <<"M">>, <<"q", "2">>, <<"m", "0", "7">>, <<"M", "5">>}
    \cup {<<"Q", d>> : d \in {"0", "1", "2", "3", "4", "5", "9"}}
    \cup {<<"M", d[1], d[2]>> : d \in {<<"0", "0">>, <<"0", "1">>, <<"0", "5">>, <<"1", "2">>,
                                       <<"1", "3">>, <<"9", "9">>}}

GarbageChars == {"X", "1"}

\* The arguments of parse_wb_date: the labels, a label cut short, and None.
DateLabels ==
    {Str(y \o p \o g) : y \in YearParts, p \in PeriodParts, g \in SeqsUpTo(GarbageChars, MaxGarbage)}
    \cup {Str(<<>>), Str(<<"2", "0", "0">>), None}

\* No dataset in sight: a label to parse.
InitDate ==
    /\ wb_input \in DateLabels
    /\ wb_date = NoCall
    /\ api_responses = <<>>
    /\ ind_result = NoCall
    /\ data_map = EmptyMap
    /\ cl_responses = EmptyMap
    /\ rows = NoList
    /\ columns = NoList
    /\ cl_call = NoClimateCall
    /\ cl_result = NoCall
    /\ cl_calls = <<>>
    /\ NoTableCallYet
    /\ NothingElseYet

\* A call of parse_wb_date.
ParseWbDate ==
    /\ wb_date' = parse_wb_date(wb_input)
    /\ UNCHANGED <<wb_input, ind_vars, cl_vars, ts_vars, other_vars>>

NextDate == ParseWbDate

SpecDate == InitDate /\ [][NextDate]_vars

-----------------------------------------------------------------------------
(* IndicatorDataset._get_data_map on an existing map, as a state machine *)

\* No dataset and no date label is in sight.
NoDatasetYet ==
    /\ api_responses = <<>>
    /\ ind_result = NoCall
    /\ data_map = EmptyMap
    /\ cl_responses = EmptyMap
    /\ rows = NoList
    /\ columns = NoList
    /\ cl_call = NoClimateCall
    /\ cl_result = NoCall
    /\ cl_calls = <<>>
    /\ NoTableCallYet
    /\ NoDateYet

\* The most records one _get_data_map call is given.
MaxMerged == 2

\* The records merged: two countries, a number and a value that is none, and
\* a record whose country is null.
MergeRecords ==
    [country : {Str(c) : c \in Countries}, date : {Str(<<"1", "9", "9", "8">>)},
     value : {Str(<<"1", ".", "5">>), Str(<<"x">>)}]
    \cup {[country |-> None, date |-> Str(<<"1", "9", "9", "8">>), value |-> Str(<<"x">>)]}

\* The country_prefix and date_prefix arguments: the default "" and "2".
Prefixes == {<<>>, <<"2">>}

\* The maps an earlier _get_data_map call has returned.
ExistingMaps(n) ==
    {st.map : st \in {x \in {get_data_map(d, NewMap, cp, dp) :
                                d \in SeqsUpTo(MergeRecords, n), cp \in Prefixes, dp \in Prefixes} :
                        x.exc = ""}}

\* One map of an earlier call exists.
InitMerge ==
    /\ dm_heap \in {<<m>> : m \in ExistingMaps(MaxMerged - 1)}
    /\ dm_call = NoMergeCall
    /\ dm_result = NoCall
    /\ NoDatasetYet
    /\ NoApiYet

\* A call of _get_data_map(data, data_map, country_prefix, date_prefix), with
\* the existing map or with None: the map it writes is the object given, or a
\* new one; what it wrote before an exception stays written.
GetDataMap ==
    /\ dm_call = NoMergeCall
    /\ \E data \in SeqsUpTo(MergeRecords, MaxMerged), given \in {0} \cup DOMAIN dm_heap,
          cp \in Prefixes, dp \in Prefixes :
          LET id    == IF given = 0 THEN Len(dm_heap) + 1 ELSE given
              start == IF given = 0 THEN EmptyMap ELSE dm_heap[given]
              st    == get_data_map(data, [exc |-> "", map |-> start], cp, dp)
          IN  /\ dm_call' = [called |-> TRUE, data |-> data, data_map |-> given,
                             country_prefix |-> cp, date_prefix |-> dp]
              /\ dm_heap' = [i \in DOMAIN dm_heap \cup {id} |->
                                IF i = id THEN st.map ELSE dm_heap[i]]
              /\ dm_result' = IF st.exc /= "" THEN Raised(st.exc) ELSE Returned(id)
    /\ UNCHANGED <<dataset_vars, api_vars>>

NextMerge == GetDataMap

SpecMerge == InitMerge /\ [][NextMerge]_vars

-----------------------------------------------------------------------------
(* utils.fetch and its cache directory, as a state machine *)

\* CACHE_TIME, one day: time is counted in half days.
CACHE_TIME == 2

\* The latest time.time() followed.
MaxClock == 3

\* response.encode("utf-8") of a text, a sequence of code points below 2048.
RECURSIVE encode(_)
encode(text) ==
    IF text = <<>> THEN <<>>
    ELSE (IF Head(text) < 128 THEN <<Head(text)>>
          ELSE <<192 + (Head(text) \div 64), 128 + (Head(text) % 64)>>) \o encode(Tail(text))

\* A variant of decode: one character per byte.
decode_bytewise(bytes) == bytes

\* cache_file.read().decode("utf-8") of the bytes of a cache file.
RECURSIVE decode(_)
decode(bytes) ==
    IF bytes = <<>> THEN <<>>
    ELSE IF bytes[1] < 128 THEN <<bytes[1]>> \o decode(Tail(bytes))
    ELSE <<(bytes[1] - 192) * 64 + (bytes[2] - 128)>> \o decode(Tail(Tail(bytes)))

\* The urls fetched; each has its own cache file, named by the md5 of the url.
Urls == {<<"u">>, <<"v">>}

\* What the web answers: "d" or "e-acute !" as code points, or no answer.
WebAnswers == {Returned(<<100>>), Returned(<<233, 33>>), Raised("ConnectionError")}

\* An empty cache directory at time 0, and some state of the web.
InitFetch ==
    /\ cache = EmptyMap
    /\ web \in [Urls -> WebAnswers]
    /\ clock = 0
    /\ fetch_call = NoFetch
    /\ fetched = EmptyMap
    /\ NoObjectYet
    /\ NoDatasetYet
    /\ NoMergeYet

\* A variant of FetchLookup: a cache file is used whatever its age.
FetchLookupAnyAge(url, use_cache) ==
    IF use_cache /\ url \in DOMAIN cache
    THEN [pc |-> "done", result |-> Returned(decode(cache[url].bytes)), files |-> cache]
    ELSE [pc |-> "request", result |-> NoCall, files |-> cache]

\* fetch up to its web request (lines 86-92): the text of a cache file
\* younger than CACHE_TIME is returned; an expired file is removed.
FetchLookup(url, use_cache) ==
    IF use_cache /\ url \in DOMAIN cache
    THEN IF clock - cache[url].mtime < CACHE_TIME
         THEN [pc |-> "done", result |-> Returned(decode(cache[url].bytes)), files |-> cache]
         ELSE [pc |-> "request", result |-> NoCall,
               files |-> [u \in DOMAIN cache \ {url} |-> cache[u]]]
    ELSE [pc |-> "request", result |-> NoCall, files |-> cache]

\* A call of fetch(url, use_cache) begins (no other call is at its request);
\* found notes the cache file of the url as it is then: none, young or expired.
FetchStart ==
    /\ fetch_call.pc /= "request"
    /\ \E url \in Urls, use_cache \in BOOLEAN :
          \E out \in {FetchLookup(url, use_cache)} :
              /\ fetch_call' = [pc |-> out.pc, url |-> url, use_cache |-> use_cache,
                                found |-> IF url \notin DOMAIN cache THEN "none"
                                          ELSE IF clock - cache[url].mtime < CACHE_TIME
                                               THEN "young" ELSE "expired",
                                requested |-> FALSE, result |-> out.result]
              /\ cache' = out.files
    /\ UNCHANGED <<web, clock, fetched, dataset_vars, merge_vars, object_vars>>

\* A variant of WebRequest: the cache file is written before the web has
\* answered, empty when it does not.
WebRequestWritingFirst(url) ==
    IF web[url].kind = "raise"
    THEN [result |-> web[url],
          files |-> (url :> [bytes |-> <<>>, mtime |-> clock]) @@ cache]
    ELSE [result |-> web[url],
          files |-> (url :> [bytes |-> encode(web[url].value), mtime |-> clock]) @@ cache]

\* fetch from its web request on (lines 95-100): the response is written to
\* the cache file and returned; an exception of requests.get propagates.
WebRequest(url) ==
    IF web[url].kind = "raise" THEN [result |-> web[url], files |-> cache]
    ELSE [result |-> web[url],
          files |-> (url :> [bytes |-> encode(web[url].value), mtime |-> clock]) @@ cache]

\* The web request of the call in progress ends.
FetchRequest ==
    /\ fetch_call.pc = "request"
    /\ \E out \in {WebRequest(fetch_call.url)} :
          /\ fetch_call' = [fetch_call EXCEPT !.pc = "done", !.requested = TRUE,
                                             !.result = out.result]
          /\ cache' = out.files
          /\ fetched' = IF out.result.kind = "raise" THEN fetched
                        ELSE (fetch_call.url :> [text |-> out.result.value, time |-> clock])
                             @@ fetched
    /\ UNCHANGED <<web, clock, dataset_vars, merge_vars, object_vars>>

\* Half a day passes.
Tick ==
    /\ clock < MaxClock
    /\ clock' = clock + 1
    /\ UNCHANGED <<cache, web, fetch_call, fetched, dataset_vars, merge_vars, object_vars>>

\* The web changes what it answers for a url.
WebChanges ==
    /\ \E url \in Urls : \E answer \in WebAnswers \ {web[url]} :
          web' = [web EXCEPT ![url] = answer]
    /\ UNCHANGED <<cache, clock, fetch_call, fetched, dataset_vars, merge_vars, object_vars>>

NextFetch == FetchStart \/ FetchRequest \/ Tick \/ WebChanges

SpecFetch == InitFetch /\ [][NextFetch]_vars

-----------------------------------------------------------------------------
(* ClimateAPI and IndicatorAPI, as a state machine *)

\* The most locations or indicator ids a call is given.
MaxArgs == 3

\* ClimateAPI.MAX_BASSIN_ID
MAX_BASSIN_ID == 468

\* str.lower, on the letters in use.
Lower(s) ==
    LET low(c) == CASE c = "A" -> "a" [] c = "C" -> "c" [] c = "D" -> "d" [] c = "E" -> "e"
                    [] c = "F" -> "f" [] c = "G" -> "g" [] c = "I" -> "i" [] c = "M" -> "m"
                    [] c = "N" -> "n" [] c = "O" -> "o" [] c = "R" -> "r" [] c = "S" -> "s"
                    [] c = "T" -> "t" [] c = "U" -> "u" [] c = "V" -> "v" [] c = "X" -> "x"
                    [] c = "Z" -> "z"
                    [] OTHER -> c
    IN  [i \in 1..Len(s) |-> low(s[i])]

\* The constructor arguments: nothing, ClimateDataset, a subclass of it, a
\* class that is none, a str, and 0; bases are the classes issubclass accepts.
Classes ==
    { [name |-> "None", truthy |-> FALSE, is_class |-> FALSE, bases |-> {}],
      [name |-> "ClimateDataset", truthy |-> TRUE, is_class |-> TRUE,
       bases |-> {"ClimateDataset", "object"}],
      [name |-> "DummyClimateSubclass", truthy |-> TRUE, is_class |-> TRUE,
       bases |-> {"DummyClimateSubclass", "ClimateDataset", "object"}],
      [name |-> "Dummy", truthy |-> TRUE, is_class |-> TRUE, bases |-> {"Dummy", "object"}],
      [name |-> "bad data", truthy |-> TRUE, is_class |-> FALSE, bases |-> {}],
      [name |-> "0", truthy |-> FALSE, is_class |-> FALSE, bases |-> {}] }

\* A variant of ApiBase_init: the TypeError of issubclass is not caught.
ApiBase_init_uncaught(class_, dataset_class) ==
    IF ~class_.truthy THEN [exc |-> "", dataset_class |-> dataset_class]
    ELSE IF ~class_.is_class THEN [exc |-> "TypeError", dataset_class |-> dataset_class]
    ELSE IF dataset_class \in class_.bases THEN [exc |-> "", dataset_class |-> class_.name]
    ELSE [exc |-> "", dataset_class |-> dataset_class]

\* ApiBase.__init__(class_), with self._dataset_class = dataset_class set
\* before: [exc, dataset_class].  issubclass raises TypeError for a first
\* argument that is no class; the except clause logs it.
ApiBase_init(class_, dataset_class) ==
    IF ~class_.truthy THEN [exc |-> "", dataset_class |-> dataset_class]
    ELSE IF ~class_.is_class THEN [exc |-> "", dataset_class |-> dataset_class]
    ELSE IF dataset_class \in class_.bases THEN [exc |-> "", dataset_class |-> class_.name]
    ELSE [exc |-> "", dataset_class |-> dataset_class]

\* ClimateAPI._get_location: [exc, loc_type, location]; to_alpha3 looks the
\* lower-cased name up in its code map (here: Slovenia's codes).
get_location(location) ==
    IF location /= <<>> /\ \A i \in 1..Len(location) : location[i] \in Digits
    THEN IF 1 <= PyInt(location).n /\ PyInt(location).n <= MAX_BASSIN_ID
         THEN [exc |-> "", loc_type |-> "basin", location |-> location]
         ELSE [exc |-> "ValueError", loc_type |-> "", location |-> location]
    ELSE LET code_map == (<<"s", "i">> :> <<"S", "V", "N">>)
                         @@ (<<"s", "v", "n">> :> <<"S", "V", "N">>)
         IN  IF Lower(location) \in DOMAIN code_map
             THEN [exc |-> "", loc_type |-> "country", location |-> code_map[Lower(location)]]
             ELSE [exc |-> "ValueError", loc_type |-> "", location |-> location]

\* The locations asked for: a country, a basin, and two that are none.
ApiLocations == { <<"S", "i">>, <<"1">>, <<"5", "5", "5">>, <<"X", "Y">> }

\* A variant of instrumental_request: the page is counted once the location
\* is known.
instrumental_request_counting_late(current_page, parameter, answer) ==
    IF get_location(parameter[1]).exc /= ""
    THEN [current_page |-> current_page, exc |-> get_location(parameter[1]).exc, key |-> <<>>]
    ELSE IF answer.kind = "raise"
    THEN [current_page |-> current_page + 1, exc |-> answer.exc, key |-> <<>>]
    ELSE [current_page |-> current_page + 1, exc |-> "",
          key |-> <<get_location(parameter[1]).location, parameter[2], parameter[3]>>]

\* One turn of the loop of get_instrumental (lines 262-274), the web giving
\* answer: [current_page, exc, key], key the place the response is stored at.
instrumental_request(current_page, parameter, answer) ==
    IF get_location(parameter[1]).exc /= ""
    THEN [current_page |-> current_page + 1, exc |-> get_location(parameter[1]).exc,
          key |-> <<>>]
    ELSE IF answer.kind = "raise"
    THEN [current_page |-> current_page + 1, exc |-> answer.exc, key |-> <<>>]
    ELSE [current_page |-> current_page + 1, exc |-> "",
          key |-> <<get_location(parameter[1]).location, parameter[2], parameter[3]>>]

\* Indicator ids: a featured one in two spellings, and two that are none.
IndicatorIds ==
    { <<"a", "g", ".", "c", "o", "n", ".", "f", "e", "r", "t", ".", "z", "s">>, <<"A", "G", ".", "C", "O", "N", ".", "F", "E", "R", "T", ".", "Z", "S">>,
      <<"A", "7", "i", "v", "i">>, <<"z", "z">> }

\* A variant of get_dataset: the first indicator that fails ends the loop.
get_dataset_stopping(indicators, countries, answers, order) ==
    LET failed == {k \in 1..Len(order) : answers.indicator[order[k]] \notin {"page", "pages"}}
        upto   == IF failed = {} THEN Len(order)
                  ELSE (CHOOSE k \in failed : \A o \in failed : k <= o) - 1
    IN  IF countries /\ answers.countries = "no answer" THEN Raised("ConnectionError")
        ELSE Returned([k \in 1..upto |->
                          [indicator |-> order[k],
                           data |-> IF answers.indicator[order[k]] = "page" THEN 1 ELSE 2]])

\* IndicatorAPI.get_dataset(indicators, countries), the web giving answers
\* and the set of lower-cased ids being iterated in order.  The countries
\* are fetched outside the try block; _get_indicator_data raises when the
\* first page or a later one is not answered (RequestException) or when the
\* answer is not a [header, data] pair (ValueError), and gives the data of
\* its pages otherwise.
get_dataset(indicators, countries, answers, order) ==
    LET got(answer) == CASE answer = "page" -> Gave(1)
                         [] answer = "pages" -> Gave(2)
                         [] answer = "no second page" -> Threw("RequestException")
                         [] answer = "no answer" -> Threw("RequestException")
                         [] answer = "message" -> Threw("ValueError")
        kept == SelectSeq(order, LAMBDA indicator : got(answers.indicator[indicator]).exc = "")
    IN  IF countries /\ answers.countries = "no answer" THEN Raised("ConnectionError")
        ELSE Returned([k \in 1..Len(kept) |->
                          [indicator |-> kept[k], data |-> got(answers.indicator[kept[k]]).n]])

\* IndicatorAPI._filter_indicators(indicators, filter_), the page of common
\* indicators holding the quoted strings page (between them characters no
\* code holds, and no string holding a quote or a grave accent): the codes
\* are those of 3 to 55 characters, none of them one of ?%&$<>= or a space,
\* lower-cased.
filter_indicators(indicators, filter_, page) ==
    LET featured == {<<"a", "g", ".", "c", "o", "n", ".", "f", "e", "r", "t", ".", "z", "s">>}
        common   == {Lower(page[k]) :
                        k \in {j \in 1..Len(page) :
                                 /\ Len(page[j]) >= 3
                                 /\ Len(page[j]) <= 55
                                 /\ \A c \in Range(page[j]) :
                                       c \notin {"?", "%", "&", "$", " ", "<", ">", "="}}}
    IN  IF filter_.t = "none" THEN Raised("AttributeError")
        ELSE IF Lower(filter_.s) = <<"f", "e", "a", "t", "u", "r", "e", "d">>
        THEN Returned(SelectSeq(indicators, LAMBDA i : Lower(i) \in featured))
        ELSE IF Lower(filter_.s) = <<"c", "o", "m", "m", "o", "n">>
        THEN Returned(SelectSeq(indicators, LAMBDA i : Lower(i) \in common))
        ELSE Returned(indicators)

\* Nothing constructed yet.
InitApi ==
    /\ NoObjectYet
    /\ NoFetchYet
    /\ NoDatasetYet
    /\ NoMergeYet

\* ClimateAPI(class_)
NewClimateAPI ==
    /\ ~capi.made
    /\ ia_call.op = "none"
    /\ \E class_ \in Classes :
          \E out \in {ApiBase_init(class_, "ClimateDataset")} :
              capi' = [made |-> TRUE, class_ |-> class_, exc |-> out.exc,
                       dataset_class |-> out.dataset_class, pages |-> 0, current_page |-> 0]
    /\ UNCHANGED <<gi_call, ia_call, ia_result, fetch_vars, dataset_vars, merge_vars>>

\* get_instrumental(locations, data_types, intervals) begins: the defaults,
\* the product of the arguments, the progress; without parameters it returns.
GetInstrumental ==
    /\ capi.made
    /\ capi.exc = ""
    /\ gi_call.pc = "idle"
    /\ \E locations \in SeqsUpTo(ApiLocations, MaxArgs),
          data_types \in {NoList, List(<<>>), List(<<<<"p", "r">>>>)},
          intervals \in {NoList, List(<<K_decade>>), List(<<K_year, K_month, K_decade>>)} :
          LET types == IF data_types.list = <<>> THEN <<<<"p", "r">>, <<"t", "a", "s">>>>
                       ELSE data_types.list
              ivals == IF intervals.list = <<>> THEN <<K_year, K_month>> ELSE intervals.list
              T     == Len(types)
              I     == Len(ivals)
              parameters ==
                  [n \in 1..(Len(locations) * T * I) |->
                      <<locations[((n - 1) \div (T * I)) + 1],
                        types[(((n - 1) \div I) % T) + 1],
                        ivals[((n - 1) % I) + 1]>>]
          IN  /\ capi' = [capi EXCEPT !.pages = Len(parameters), !.current_page = 0]
              /\ gi_call' = [pc |-> IF parameters = <<>> THEN "done" ELSE "loop",
                             locations |-> locations, data_types |-> data_types,
                             intervals |-> intervals, todo |-> parameters, stored |-> {},
                             result |-> IF parameters = <<>>
                                        THEN Returned([class |-> capi.dataset_class, keys |-> {}])
                                        ELSE NoCall]
    /\ UNCHANGED <<ia_call, ia_result, fetch_vars, dataset_vars, merge_vars>>

\* One request of get_instrumental: the web answers or fails; after the last
\* one the responses are returned, wrapped in self._dataset_class.
InstrumentalRequest ==
    /\ gi_call.pc = "loop"
    /\ \E answer \in {Returned(<<>>), Raised("ConnectionError")} :
          \E out \in {instrumental_request(capi.current_page, Head(gi_call.todo), answer)} :
              /\ capi' = [capi EXCEPT !.current_page = out.current_page]
              /\ gi_call' =
                    IF out.exc /= ""
                    THEN [gi_call EXCEPT !.pc = "done", !.result = Raised(out.exc)]
                    ELSE IF Tail(gi_call.todo) = <<>>
                    THEN [gi_call EXCEPT
                            !.pc = "done", !.todo = <<>>, !.stored = @ \cup {out.key},
                            !.result = Returned([class |-> capi.dataset_class,
                                                 keys |-> gi_call.stored \cup {out.key}])]
                    ELSE [gi_call EXCEPT !.todo = Tail(@), !.stored = @ \cup {out.key}]
    /\ UNCHANGED <<ia_call, ia_result, fetch_vars, dataset_vars, merge_vars>>

\* A call of IndicatorAPI.get_dataset: indicators is one id or a list of
\* ids, countries None or a list.
GetDataset ==
    /\ ia_call.op = "none"
    /\ ~capi.made
    /\ \E is_str \in BOOLEAN, ids \in SeqsUpTo(IndicatorIds, MaxArgs), countries \in BOOLEAN :
          /\ is_str => Len(ids) = 1
          /\ LET lowered == {Lower(ids[k]) : k \in 1..Len(ids)}
             IN  \E answers \in [countries : IF countries THEN {"page", "no answer"} ELSE {"page"},
                                 indicator : [lowered -> {"page", "pages", "no second page",
                                                          "no answer", "message"}]],
                    order \in {o \in [1..Cardinality(lowered) -> lowered] : Range(o) = lowered} :
                    /\ ia_call' = [op |-> "get_dataset", is_str |-> is_str, ids |-> ids,
                                   countries |-> countries, answers |-> answers,
                                   order |-> order]
                    /\ ia_result' = get_dataset(ids, countries, answers, order)
    /\ UNCHANGED <<capi, gi_call, fetch_vars, dataset_vars, merge_vars>>

\* A call of IndicatorAPI._filter_indicators.
FilterIndicators ==
    /\ ia_call.op = "none"
    /\ ~capi.made
    /\ \E ids \in SeqsUpTo(IndicatorIds, MaxArgs),
          filter_ \in {Str(<<"f", "e", "a", "t", "u", "r", "e", "d">>),
                       Str(<<"F", "e", "a", "t", "u", "r", "e", "d">>),
                       Str(<<"c", "o", "m", "m", "o", "n">>),
                       Str(<<"b", "a", "d">>), Str(<<>>), None},
          page \in {<<>>, <<<<"A", "7", "I", "V", "I">>, <<"z", "z">>, <<"a", " ", "b">>>>} :
          /\ ia_call' = [op |-> "filter", ids |-> ids, filter_ |-> filter_, page |-> page]
          /\ ia_result' = filter_indicators(ids, filter_, page)
    /\ UNCHANGED <<capi, gi_call, fetch_vars, dataset_vars, merge_vars>>

NextApi == NewClimateAPI \/ GetInstrumental \/ InstrumentalRequest \/ GetDataset \/ FilterIndicators

SpecApi == InitApi /\ [][NextApi]_vars

-----------------------------------------------------------------------------
(* Properties of IndicatorDataset.as_list, checked under SpecIndicator *)

\* The table the last as_list call returned.
IndTable == ind_result.value

IndReturnedTable == ind_result.kind = "return" /\ Len(ind_result.value) >= 1

\* The prefix the dates of indicator number k get: none for a single indicator.
ColumnPrefix(k) ==
    IF Len(api_responses) > 1 THEN api_responses[k].indicator \o Sep ELSE <<>>

\* The datapoints of the dataset: <<k, p>> is datapoint p of indicator k.
Datapoints ==
    {kp \in (1..Len(api_responses)) \X (1..MaxRecords + 1) :
        kp[2] <= Len(api_responses[kp[1]].data)}

DatapointAt(kp) == api_responses[kp[1]].data[kp[2]]

\* The column label under which datapoint kp is reported.
ColumnLabel(kp) == ColumnPrefix(kp[1]) \o DatapointAt(kp).date.s

\* The datapoints reported for country label c and column label l.
ReportsFor(c, l) ==
    {kp \in Datapoints : DatapointAt(kp).country.s = c /\ ColumnLabel(kp) = l}

\* The datapoint of a non-empty set that the merge reads last.
LastOf(S) ==
    CHOOSE kp \in S : \A o \in S :
        o[1] < kp[1] \/ (o[1] = kp[1] /\ o[2] <= kp[2])

\* What each reported value of the model reads as, written out.
ExpectedCell(value) ==
    CASE value = None -> None
      [] value = Str(<<"x">>) -> None
      [] value = Str(<<"1", ".", "5">>) -> Float(1500)

\* The indicators (by number) that report some date under column label l.
ColumnIndicators(l) == {kp[1] : kp \in {x \in Datapoints : ColumnLabel(x) = l}}

\* The countries indicator number k reports.
CountriesOf(k) ==
    {DatapointAt(kp).country.s : kp \in {x \in Datapoints : x[1] = k}}

\* C1: every cell of the table as_list returns, at a country row and a date
\* column, holds the parsed value of the datapoint reported for that pair
\* (None when the reported value was null or not a number), and 0.0 when no
\* datapoint exists for the pair, also in a row of a country that the
\* column's indicator never reported.
C1_CellsAreReportedValueOrZero ==
    IndReturnedTable =>
        \A i \in 2..Len(IndTable) : \A j \in 2..Len(IndTable[i]) :
            LET reports == ReportsFor(IndTable[i][1].s, IndTable[1][j].s)
            IN  IndTable[i][j] =
                    IF reports = {} THEN Float(0)
                    ELSE ExpectedCell(DatapointAt(LastOf(reports)).value)

\* C1 witness: a table of two indicators with a None cell, a number cell and
\* a 0.0 cell in the row of a country its column's indicator never reported.
C1_Witness ==
    /\ IndReturnedTable
    /\ Len(api_responses) = 2
    /\ \E i \in 2..Len(IndTable) : \E j \in 2..Len(IndTable[1]) : IndTable[i][j] = None
    /\ \E i \in 2..Len(IndTable) : \E j \in 2..Len(IndTable[1]) : IndTable[i][j] = Float(1500)
    /\ \E i \in 2..Len(IndTable) : \E j \in 2..Len(IndTable[1]) :
          /\ IndTable[i][j] = Float(0)
          /\ \A k \in ColumnIndicators(IndTable[1][j].s) : IndTable[i][1].s \notin CountriesOf(k)

\* The positions <<i, j>> of a table of several indicators whose row country
\* is absent from the data of the indicator of column j.
ForeignPositions ==
    {ij \in (2..Len(IndTable)) \X (2..Len(IndTable[1])) :
        \A k \in ColumnIndicators(IndTable[1][ij[2]].s) :
            IndTable[ij[1]][1].s \notin CountriesOf(k)}

\* C2 as stated: in a table of several indicators, a position whose row
\* country is absent from the column indicator's data is filled with null,
\* not with zero.
C2_ForeignPositionsAreNull ==
    (IndReturnedTable /\ Len(api_responses) > 1) =>
        \A ij \in ForeignPositions : IndTable[ij[1]][ij[2]] = None

\* C2 amended: in a table of several indicators, a position whose row country
\* is absent from the column indicator's data is filled with 0.0, like every
\* other pair without a datapoint; a null cell is always a datapoint whose
\* reported value was null or not a number.
C2_ForeignPositionsAreZero ==
    (IndReturnedTable /\ Len(api_responses) > 1) =>
        /\ \A ij \in ForeignPositions : IndTable[ij[1]][ij[2]] = Float(0)
        /\ \A i \in 2..Len(IndTable) : \A j \in 2..Len(IndTable[i]) :
              IndTable[i][j] = None =>
                  \E kp \in ReportsFor(IndTable[i][1].s, IndTable[1][j].s) :
                      DatapointAt(kp).value \in {None, Str(<<"x">>)}

\* C2 witness: a table of several indicators with a position of a country
\* absent from the column indicator's data, and a null cell elsewhere.
C2_Witness ==
    /\ IndReturnedTable
    /\ Len(api_responses) > 1
    /\ ForeignPositions /= {}
    /\ \E i \in 2..Len(IndTable) : \E j \in 2..Len(IndTable[1]) : IndTable[i][j] = None

\* The labels of the first row after the corner cell, and of the first column.
HeaderLabels == [j \in 1..(Len(IndTable[1]) - 1) |-> IndTable[1][j + 1].s]

RowLabels == [i \in 1..(Len(IndTable) - 1) |-> IndTable[i + 1][1].s]

StrictlyAscending(labels) ==
    \A i \in 1..Len(labels) : \A j \in 1..Len(labels) :
        i < j => StrLess(labels[i], labels[j])

\* C3: for a single indicator the table is the header row "Country" followed
\* by the distinct date labels in ascending string order, then one row per
\* distinct country in ascending string order: rows = countries + 1, and
\* every row has dates + 1 cells.  With prefixes (several indicators) the
\* labels ascend by their full prefixed string.
C3_SortedAxesAndShape ==
    IndReturnedTable =>
        /\ IndTable[1][1] = Str(Country)
        /\ StrictlyAscending(HeaderLabels)
        /\ StrictlyAscending(RowLabels)
        /\ {HeaderLabels[j] : j \in 1..Len(HeaderLabels)} = {ColumnLabel(kp) : kp \in Datapoints}
        /\ {RowLabels[i] : i \in 1..Len(RowLabels)} =
              {DatapointAt(kp).country.s : kp \in Datapoints}
        /\ Len(api_responses) = 1 =>
              /\ Len(IndTable) = Cardinality({DatapointAt(kp).country.s : kp \in Datapoints}) + 1
              /\ \A i \in 1..Len(IndTable) :
                    Len(IndTable[i]) =
                        Cardinality({DatapointAt(kp).date.s : kp \in Datapoints}) + 1

\* C3 witness: a single indicator whose two datapoints differ in country and
\* in date, the later date and country reported first.
C3_Witness ==
    /\ IndReturnedTable
    /\ Len(api_responses) = 1
    /\ Len(api_responses[1].data) = 2
    /\ StrLess(api_responses[1].data[2].date.s, api_responses[1].data[1].date.s)
    /\ StrLess(api_responses[1].data[2].country.s, api_responses[1].data[1].country.s)
    /\ Len(IndTable) = 3
    /\ Len(IndTable[1]) = 3

\* C4: with several indicators every date key is prefixed with the indicator
\* and " - " and the country keys are not prefixed: the rows are the union of
\* the countries of all indicators, and datapoints of two different
\* indicators never share a column, even when they report the same date.
C4_DatePrefixKeepsIndicatorsApart ==
    (IndReturnedTable /\ Len(api_responses) > 1) =>
        /\ \A j \in 1..Len(HeaderLabels) :
              \E kp \in Datapoints :
                  HeaderLabels[j] =
                      api_responses[kp[1]].indicator \o Sep \o DatapointAt(kp).date.s
        /\ {RowLabels[i] : i \in 1..Len(RowLabels)} =
              UNION {CountriesOf(k) : k \in 1..Len(api_responses)}
        /\ \A kp \in Datapoints :
              \E j \in 1..Len(HeaderLabels) : HeaderLabels[j] = ColumnLabel(kp)
        /\ \A j \in 1..Len(HeaderLabels) :
              Cardinality(ColumnIndicators(HeaderLabels[j])) = 1

\* C4 witness: two indicators report the same date for the same country, and
\* the table holds one row and two columns for them.
C4_Witness ==
    /\ IndReturnedTable
    /\ Len(api_responses) = 2
    /\ \E p \in Datapoints : \E q \in Datapoints :
          /\ p[1] /= q[1]
          /\ DatapointAt(p).date = DatapointAt(q).date
          /\ DatapointAt(p).country = DatapointAt(q).country
    /\ Len(IndTable) = 2
    /\ Len(IndTable[1]) = 3


-----------------------------------------------------------------------------
(* Properties of ClimateDataset, checked under SpecClimate *)

ClTable == cl_result.value

AsListCalled == cl_call.op = "as_list"

AsListReturned == cl_call.op = "as_list" /\ cl_result.kind = "return"

AxisNames == {K_country, K_type, K_interval}

\* The columns argument is a list with a name in it.
ColumnsGiven == cl_call.columns.given /\ cl_call.columns.list /= <<>>

\* The names of the columns argument are a strict subset of the axis names.
StrictSubsetOfAxes ==
    /\ \A i \in 1..Len(cl_call.columns.list) : cl_call.columns.list[i] \in AxisNames
    /\ \E a \in AxisNames : \A i \in 1..Len(cl_call.columns.list) : cl_call.columns.list[i] /= a

\* The records of bucket b, by position.
RecordsOf(b) == cl_responses[b].response

\* The time value of a record of bucket b: its "year" field for the
\* intervals year and decade, the field named like the interval otherwise.
TimeOf(b, rec) == IF b[3] \in {K_year, K_decade} THEN rec[K_year] ELSE rec[b[3]]

\* The positions in bucket b of the records with time value t.
PositionsOf(b, t) == {p \in 1..Len(RecordsOf(b)) : TimeOf(b, RecordsOf(b)[p]) = t}

\* The sparse map has a value at (b, t).
HasValue(b, t) == b \in DOMAIN cl_responses /\ PositionsOf(b, t) /= {}

\* That value: the data of the last record of b with time value t.
ValueAt(b, t) ==
    RecordsOf(b)[CHOOSE p \in PositionsOf(b, t) : \A q \in PositionsOf(b, t) : q <= p][K_data]

\* The observed values of an axis, each as the list of its label elements.
Observed(a) ==
    IF a = K_country THEN {<<Str(b[1])>> : b \in DOMAIN cl_responses}
    ELSE IF a = K_type THEN {<<Str(b[2])>> : b \in DOMAIN cl_responses}
    ELSE UNION {{<<Str(b[3]), Int_(TimeOf(b, RecordsOf(b)[p]))>> : p \in 1..Len(RecordsOf(b))} :
                    b \in DOMAIN cl_responses}

\* The Cartesian product of the observed values of a list of axes: labels.
RECURSIVE LabelsOf(_)
LabelsOf(axes) ==
    IF axes = <<>> THEN {<<>>}
    ELSE {x \o rest : x \in Observed(Head(axes)), rest \in LabelsOf(Tail(axes))}

\* Label a comes before label b: element by element, strings compared
\* lexicographically and interval keys numerically.
RECURSIVE LabelBefore(_, _)
LabelBefore(a, b) ==
    IF a = <<>> \/ b = <<>> THEN FALSE
    ELSE IF Head(a) = Head(b) THEN LabelBefore(Tail(a), Tail(b))
    ELSE IF Head(a).t = "int" THEN Head(a).n < Head(b).n
    ELSE StrLess(Head(a).s, Head(b).s)

\* The place of label l among the labels S in ascending order, from 1.
Place(l, S) == 1 + Cardinality({x \in S : LabelBefore(x, l)})

\* The elements of label l that belong to axis a, l being a label over axes.
PartOf(l, axes, a) ==
    LET i   == CHOOSE k \in 1..Len(axes) : axes[k] = a
        off == i + Cardinality({j \in 1..(i - 1) : axes[j] = K_interval})
    IN  IF a = K_interval THEN <<l[off], l[off + 1]>> ELSE <<l[off]>>

\* The elements of axis a that a row label r and a column label c name.
NamedBy(r, c, a) ==
    IF a \in Range(rows.list) THEN PartOf(r, rows.list, a) ELSE PartOf(c, columns.list, a)

\* The bucket and the interval key that labels r and c name.
BucketNamedBy(r, c) ==
    <<NamedBy(r, c, K_country)[1].s, NamedBy(r, c, K_type)[1].s, NamedBy(r, c, K_interval)[1].s>>

KeyNamedBy(r, c) == NamedBy(r, c, K_interval)[2].n

\* The interior cell of the returned table at labels r and c.
CellAt(r, c) ==
    ClTable[1 + Place(r, LabelsOf(rows.list))][1 + Place(c, LabelsOf(columns.list))]

\* C5 as stated: for every valid columns argument, in whatever order it
\* lists the axis names, every interior cell equals the sparse-map value at
\* the location, type, interval name and interval key that the cell's row
\* label and column label name.
C5_CellsAreMapValues ==
    AsListReturned =>
        \A r \in LabelsOf(rows.list) : \A c \in LabelsOf(columns.list) :
            HasValue(BucketNamedBy(r, c), KeyNamedBy(r, c)) =>
                CellAt(r, c) = Int_(ValueAt(BucketNamedBy(r, c), KeyNamedBy(r, c)))

\* C6 as stated: when a combination of the Cartesian product of the observed
\* labels has no value in the sparse map, as_list raises and returns no table.
C6_MissingCombinationRaises ==
    (AsListCalled /\ (~ColumnsGiven \/ StrictSubsetOfAxes)) =>
        ((\E r \in LabelsOf(rows.list) : \E c \in LabelsOf(columns.list) :
                ~HasValue(BucketNamedBy(r, c), KeyNamedBy(r, c)))
            => cl_result.kind = "raise")

\* C7: as_list raises TypeError, and returns no table, exactly when a
\* non-empty columns argument is not a strict subset of the axis names: with
\* an unknown name in it, and also when it names all three axes.
C7_TypeErrorIffNotStrictSubset ==
    AsListCalled =>
        /\ cl_result.kind \in {"raise", "return"}
        /\ cl_result.kind = "raise" <=> (ColumnsGiven /\ ~StrictSubsetOfAxes)
        /\ cl_result.kind = "raise" => cl_result = Raised("TypeError")

\* C7 witness: the list of all three axes has raised TypeError.
C7_Witness ==
    /\ AsListCalled
    /\ Len(cl_call.columns.list) = 3
    /\ \A i \in 1..3 : cl_call.columns.list[i] \in AxisNames
    /\ cl_result = Raised("TypeError")
    /\ cl_responses /= EmptyMap

\* C8: with columns None or empty the column axes are type, interval and the
\* row axis is country; otherwise the column axes are the given list and the
\* row axes are the names of country, type, interval that are not in it, in
\* that order, so that rows and columns together hold each of the three
\* axes exactly once.
C8_RowsAreTheComplement ==
    AsListCalled =>
        /\ rows.given /\ columns.given
        /\ ~ColumnsGiven =>
              columns.list = <<K_type, K_interval>> /\ rows.list = <<K_country>>
        /\ ColumnsGiven =>
              /\ columns.list = cl_call.columns.list
              /\ \A a \in AxisNames :
                    a \in Range(rows.list) <=> a \notin Range(cl_call.columns.list)
              /\ \A i \in 1..Len(rows.list) : \A j \in 1..Len(rows.list) :
                    i < j => IndexOf(KEYS, rows.list[i]) < IndexOf(KEYS, rows.list[j])
        /\ \A a \in AxisNames :
              Cardinality({i \in 1..Len(rows.list) : rows.list[i] = a})
              + Cardinality({j \in 1..Len(columns.list) : columns.list[j] = a}) = 1
        /\ Range(rows.list) \subseteq AxisNames

\* C8 witness: the argument ["type"] has made the rows country, interval.
C8_Witness ==
    /\ AsListCalled
    /\ cl_call.columns = List(<<K_type>>)
    /\ rows = List(<<K_country, K_interval>>)
    /\ columns = List(<<K_type>>)

\* The first cell of the row of label l: the joined label, or with use_dates
\* the date of a year.
IsRowHeadOf(cell, l) ==
    \/ cell = Str(Join(l))
    \/ cl_call.use_dates /\ cell.t = "date" /\ l[1] = Str(K_year) /\ cell.n = l[2].n

\* C9: the returned table is rectangular with 1 + R rows and 1 + C columns,
\* R and C the sizes of the Cartesian products of the observed values of the
\* row axes and of the column axes (the interval axis giving (name, key)
\* pairs); the row labels and the column labels stand in ascending order,
\* strings compared lexicographically and interval keys numerically.
C9_RectangularAndSorted ==
    AsListReturned =>
        LET R == LabelsOf(rows.list)
            C == LabelsOf(columns.list)
        IN  /\ Len(ClTable) = 1 + Cardinality(R)
            /\ \A i \in 1..Len(ClTable) : Len(ClTable[i]) = 1 + Cardinality(C)
            /\ \A r \in R : IsRowHeadOf(ClTable[1 + Place(r, R)][1], r)
            /\ \A c \in C : ClTable[1][1 + Place(c, C)] = Str(Join(c))

\* C9 witness: a table whose columns hold the keys 9 and 10 of one interval,
\* 9 first, and whose rows hold two locations.
C9_Witness ==
    /\ AsListReturned
    /\ ~ColumnsGiven
    /\ Len(ClTable) = 3
    /\ Len(ClTable[1]) = 3
    /\ \E t \in Types, i \in Intervals :
          /\ ClTable[1][2] = Str(Join(<<Str(t), Str(i), Int_(9)>>))
          /\ ClTable[1][3] = Str(Join(<<Str(t), Str(i), Int_(10)>>))

\* C10: as_dict returns a map with map[location][variable][interval][t] =
\* data for every record of every bucket, t being the record's "year" field
\* for the intervals year and decade and the field named like the interval
\* otherwise; of two records of a bucket with the same t the later one wins;
\* no "url" entry appears in the map.
C10_AsDictHoldsEveryRecord ==
    cl_call.op = "as_dict" =>
        /\ cl_result.kind = "return"
        /\ DOMAIN cl_result.value = DOMAIN cl_responses
        /\ \A b \in DOMAIN cl_responses :
              /\ DOMAIN cl_result.value[b] =
                    {TimeOf(b, RecordsOf(b)[p]) : p \in 1..Len(RecordsOf(b))}
              /\ \A t \in DOMAIN cl_result.value[b] : cl_result.value[b][t] = ValueAt(b, t)

\* C10 witness: as_dict has read a decade bucket with two records of one year.
C10_Witness ==
    /\ cl_call.op = "as_dict"
    /\ cl_result.kind = "return"
    /\ \E b \in DOMAIN cl_responses :
          /\ b[3] = K_decade
          /\ Len(RecordsOf(b)) = 2
          /\ RecordsOf(b)[1][K_year] = RecordsOf(b)[2][K_year]
          /\ cl_result.value[b][RecordsOf(b)[1][K_year]] = RecordsOf(b)[2][K_data]


\* The row labels of the returned table whose interval axis is "year".
YearRows ==
    IF K_interval \in Range(rows.list)
    THEN {r \in LabelsOf(rows.list) : PartOf(r, rows.list, K_interval)[1] = Str(K_year)}
    ELSE {}

\* The first cell of the row of label r.
RowHeadCell(r) == ClTable[1 + Place(r, LabelsOf(rows.list))][1]

\* Every header cell is a joined label: the joined row axis names first.
HeaderIsJoined ==
    /\ ClTable[1][1] = Str(Join([i \in 1..Len(rows.list) |-> Str(rows.list[i])]))
    /\ \A c \in LabelsOf(columns.list) :
          ClTable[1][1 + Place(c, LabelsOf(columns.list))] = Str(Join(c))

\* C11 as stated: with use_dates, every row whose interval axis is "year"
\* gets the date (key, 1, 1) as its first cell, for every row-axis
\* assignment that holds the interval axis; every other row label and every
\* header label is the joined label.
C11_YearRowsAreDates ==
    (AsListReturned /\ cl_call.use_dates) =>
        /\ \A r \in YearRows : RowHeadCell(r) = Date(PartOf(r, rows.list, K_interval)[2].n)
        /\ \A r \in LabelsOf(rows.list) \ YearRows : RowHeadCell(r) = Str(Join(r))
        /\ HeaderIsJoined

\* C11 amended: with use_dates, a row whose interval axis is "year" gets the
\* date (key, 1, 1) as its first cell when interval is the only row axis
\* (the label then starts with "year"); with the row axes country, interval
\* or type, interval it keeps the joined label, like every other row label
\* and every header label.
C11_YearRowsAreDatesWhenIntervalIsTheOnlyRowAxis ==
    (AsListReturned /\ cl_call.use_dates) =>
        /\ \A r \in LabelsOf(rows.list) :
              RowHeadCell(r) =
                  IF rows.list = <<K_interval>> /\ r \in YearRows
                  THEN Date(r[2].n) ELSE Str(Join(r))
        /\ HeaderIsJoined

\* C11 witness: with use_dates and the one row axis interval, a year row
\* has its date and a row of another interval its joined label.
C11_Witness ==
    /\ AsListReturned /\ cl_call.use_dates
    /\ rows.list = <<K_interval>>
    /\ \E r \in YearRows : RowHeadCell(r) = Date(r[2].n)
    /\ \E r \in LabelsOf(rows.list) \ YearRows : RowHeadCell(r) = Str(Join(r))


\* The label over the axes that names location l, type t, interval i, key k.
RECURSIVE LabelFor(_, _, _, _, _)
LabelFor(axes, l, t, i, k) ==
    IF axes = <<>> THEN <<>>
    ELSE (IF Head(axes) = K_country THEN <<Str(l)>>
          ELSE IF Head(axes) = K_type THEN <<Str(t)>>
          ELSE <<Str(i), Int_(k)>>) \o LabelFor(Tail(axes), l, t, i, k)

\* The place in the table of the cell for (l, t, i, k): row, column.
PlaceFor(l, t, i, k) ==
    << 1 + Place(LabelFor(rows.list, l, t, i, k), LabelsOf(rows.list)),
       1 + Place(LabelFor(columns.list, l, t, i, k), LabelsOf(columns.list)) >>

\* Location l and type t hold the key k both as a year and as a decade.
YearMeetsDecade(l, t, k) == HasValue(<<l, t, K_year>>, k) /\ HasValue(<<l, t, K_decade>>, k)

\* The value v stands in an interior cell of the returned table.
InTable(v) ==
    \E x \in 2..Len(ClTable) : \E y \in 2..Len(ClTable[x]) : ClTable[x][y] = Int_(v)

\* The interval pair is read at the right place of the labels: interval is a
\* row axis or the last column axis.
IntervalIsLast ==
    K_interval \in Range(rows.list) \/ columns.list[Len(columns.list)] = K_interval

C14_EmptyResponsesGiveEmptyList ==
    (AsListCalled /\ cl_responses = EmptyMap /\ (~ColumnsGiven \/ StrictSubsetOfAxes)) =>
        cl_result = Returned(<<>>)

-----------------------------------------------------------------------------
(* Further properties of IndicatorDataset, checked under SpecIndicator *)

\* C26 as stated: the sparse map holds an entry only for a (country, date)
\* pair that a merge wrote: building the table (densifying) inserts no entry,
\* so every entry of the map as_list ends with is reported by a datapoint.
C26_MapHoldsOnlyWrittenPairs ==
    IndReturnedTable =>
        \A c \in DOMAIN data_map : \A d \in DOMAIN data_map[c] : ReportsFor(c, d) /= {}

\* as_list has been called.
IndCalled == ind_result.kind /= "none"

\* C13: as_list on a dataset with zero indicators returns the empty list []
\* and does not raise.
C13_NoIndicatorGivesEmptyList ==
    (IndCalled /\ api_responses = <<>>) => ind_result = Returned(<<>>)

\* C13 witness: as_list has returned [] for the dataset without indicators.
C13_Witness ==
    /\ api_responses = <<>>
    /\ ind_result = Returned(<<>>)


-----------------------------------------------------------------------------
(* Properties of as_list(time_series, add_metadata), checked under         *)
(* SpecIndicatorTable                                                      *)

TsTable == ts_result.value

BothOrientations ==
    /\ IndReturnedTable
    /\ ts_call.called /\ ts_call.time_series /\ ~ts_call.add_metadata
    /\ ts_result.kind = "return" /\ Len(TsTable) >= 1

\* The date labels of the dataset.
AllDateLabels == {DatapointAt(kp).date.s : kp \in Datapoints}

\* The row of the time series table for date label d: by its rank, the label
\* itself being converted to a date.
TsRowOf(d) == 2 + Cardinality({e \in AllDateLabels : StrLess(e, d)})

-----------------------------------------------------------------------------
(* Properties of IndicatorDataset on datapoints of any content, checked    *)
(* under SpecIndicatorAny                                                  *)

\* C17 as stated: as_list never raises: for every content of api_responses,
\* degenerate records included, it returns a table or the empty list.
C17_AsListNeverRaises ==
    IndCalled => ind_result.kind = "return"

\* No datapoint has a null country or a null date.
NoNullLabel ==
    \A kp \in Datapoints : DatapointAt(kp).country.t /= "none" /\ DatapointAt(kp).date.t /= "none"

\* What a reported value is to be parsed as: the float of the numeric string
\* of the model, null for a null, absent, empty or non-numeric value.
ParsedAs(value) == IF value = Str(<<"1", ".", "5">>) THEN Float(1500) ELSE None

\* C18: the value parser gives null for a null, empty or non-numeric value
\* and the float for a numeric string, and never raises: whatever the values
\* are, the merge goes through all records and the map holds at each
\* written (country, date) key the so parsed value of the last record with
\* that key.
C18_UnparseableValuesAreStoredAsNull ==
    (IndCalled /\ NoNullLabel) =>
        /\ ind_result.kind = "return"
        /\ \A kp \in Datapoints :
              LET c == DatapointAt(kp).country.s
                  l == ColumnLabel(kp)
              IN  /\ c \in DOMAIN data_map
                  /\ l \in DOMAIN data_map[c]
                  /\ data_map[c][l] = ParsedAs(DatapointAt(LastOf(ReportsFor(c, l))).value)

\* C18 witness: an empty value is stored as null and the record after it
\* as its number.
C18_Witness ==
    /\ IndCalled /\ ind_result.kind = "return"
    /\ Len(api_responses) = 1
    /\ Len(api_responses[1].data) = 2
    /\ api_responses[1].data[1].value = Str(<<>>)
    /\ api_responses[1].data[1].country = Str(<<"B", "e">>)
    /\ api_responses[1].data[1].date = Str(<<"1", "9", "9", "8">>)
    /\ api_responses[1].data[2].country = Str(<<"B", "r">>)
    /\ data_map[<<"B", "e">>][<<"1", "9", "9", "8">>] = None
    /\ data_map[<<"B", "r">>][<<"2", "0", "0", "0", "Q", "1">>] = Float(1500)


-----------------------------------------------------------------------------
(* Properties of parse_wb_date, checked under SpecDate *)

DateCalled == wb_date /= NoCall

\* The label as a string (no string for None).
Label == wb_input.s

\* The characters a..b of the label are digits.
DigitsAt(a, b) == \A i \in a..b : Label[i] \in Digits

\* The number the characters a..b of the label write.
NumberAt(a, b) == DigitsVal(SubSeq(Label, a, b))

\* The label is of the shape YYYY, YYYYQn, YYYYMnn, whatever n and nn are.
YearShape == wb_input.t = "str" /\ Len(Label) = 4 /\ DigitsAt(1, 4)

QuarterShape ==
    wb_input.t = "str" /\ Len(Label) = 6 /\ DigitsAt(1, 4) /\ Label[5] = "Q" /\ DigitsAt(6, 6)

MonthShape ==
    wb_input.t = "str" /\ Len(Label) = 7 /\ DigitsAt(1, 4) /\ Label[5] = "M" /\ DigitsAt(6, 7)

\* C19: parse_wb_date maps YYYY to (YYYY, 1, 1), YYYYQn with n in 1..4 to
\* (YYYY, 3n-2, 1) and YYYYMnn to (YYYY, nn, 1); for a quarter outside 1..4
\* or a month outside 1..12 it returns null and does not raise.
C19_DatesOfWellFormedLabels ==
    DateCalled =>
        /\ YearShape => wb_date = Returned(WbDate(NumberAt(1, 4), 1))
        /\ QuarterShape =>
              wb_date = IF NumberAt(6, 6) \in 1..4
                        THEN Returned(WbDate(NumberAt(1, 4), 3 * NumberAt(6, 6) - 2))
                        ELSE Returned(None)
        /\ MonthShape =>
              wb_date = IF NumberAt(6, 7) \in 1..12
                        THEN Returned(WbDate(NumberAt(1, 4), NumberAt(6, 7)))
                        ELSE Returned(None)

\* C19 witness: the third quarter of 2000 has been parsed to (2000, 7, 1).
C19_Witness ==
    /\ wb_input = Str(<<"2", "0", "0", "0", "Q", "3">>)
    /\ wb_date = Returned(WbDate(2000, 7))

\* The label is well formed up to the case of its letter and to a month of
\* one digit: YYYY, YYYYQn, YYYYMn or YYYYMnn.
WellFormedLabel ==
    /\ wb_input.t = "str"
    /\ Len(Label) \in {4, 6, 7}
    /\ DigitsAt(1, 4)
    /\ Len(Label) = 6 => Label[5] \in {"Q", "q", "M", "m"} /\ DigitsAt(6, 6)
    /\ Len(Label) = 7 => Label[5] \in {"M", "m"} /\ DigitsAt(6, 7)

\* C20 as stated: parse_wb_date returns null, without raising, for every
\* label that is not of the shape YYYY, YYYYQn or YYYYMnn: a well-formed
\* label followed by trailing garbage and a label with bad year digits give
\* null, never a date.
C20_OtherShapesGiveNull ==
    (DateCalled /\ ~WellFormedLabel) => wb_date = Returned(None)

-----------------------------------------------------------------------------
(* Properties of _get_data_map on an existing map, checked under SpecMerge *)

\* The positions of the records of the call that have a country to write to.
MergedPositions == {i \in 1..Len(dm_call.data) : dm_call.data[i].country.t = "str"}

\* The (prefixed country, prefixed date) key record number i of the call writes.
MergeKey(call, i) ==
    <<call.country_prefix \o call.data[i].country.s, call.date_prefix \o call.data[i].date.s>>

\* Map m holds an entry at key k.
HasEntry(m, k) == k[1] \in DOMAIN m /\ k[2] \in DOMAIN m[k[1]]

\* The keys of the entries of map m.
EntriesOf(m) == UNION {{<<c, d>> : d \in DOMAIN m[c]} : c \in DOMAIN m}

\* C25: _get_data_map with an existing map returns that same map (no new
\* one), leaves every entry whose (prefixed country, prefixed date) key no
\* new record writes as it was and adds none there, and leaves at each
\* written key the parsed value of the last record with that key.
C25_MergeWritesIntoTheExistingMap ==
    [][(dm_call'.called /\ dm_call'.data_map /= 0) =>
        LET call    == dm_call'
            id      == call.data_map
            before  == dm_heap[id]
            after   == dm_heap'[id]
            written == {MergeKey(call, i) :
                            i \in {j \in 1..Len(call.data) : call.data[j].country.t = "str"}}
        IN  /\ DOMAIN dm_heap' = DOMAIN dm_heap
            /\ \A k \in (EntriesOf(before) \cup EntriesOf(after)) \ written :
                  /\ HasEntry(before, k)
                  /\ HasEntry(after, k)
                  /\ after[k[1]][k[2]] = before[k[1]][k[2]]
            /\ dm_result'.kind = "return" =>
                  /\ dm_result'.value = id
                  /\ \A i \in 1..Len(call.data) :
                        LET k    == MergeKey(call, i)
                            last == CHOOSE j \in 1..Len(call.data) :
                                        /\ MergeKey(call, j) = k
                                        /\ \A o \in j + 1..Len(call.data) : MergeKey(call, o) /= k
                        IN  /\ HasEntry(after, k)
                            /\ after[k[1]][k[2]] = ExpectedCell(call.data[last].value)
    ]_vars

\* C25 witness: a merge into the existing map has returned it; two of its
\* records wrote the same key with values that parse differently, and the
\* map holds an entry none of the records wrote.
C25_Witness ==
    /\ dm_result = Returned(1)
    /\ dm_call.data_map = 1
    /\ Len(dm_call.data) = 2
    /\ MergeKey(dm_call, 1) = MergeKey(dm_call, 2)
    /\ ExpectedCell(dm_call.data[1].value) /= ExpectedCell(dm_call.data[2].value)
    /\ dm_heap[1][MergeKey(dm_call, 2)[1]][MergeKey(dm_call, 2)[2]]
          = ExpectedCell(dm_call.data[2].value)
    /\ \E k \in EntriesOf(dm_heap[1]) : \A i \in MergedPositions : MergeKey(dm_call, i) /= k

-----------------------------------------------------------------------------
(* Properties of calls that follow each other, checked under SpecClimateCalls *)

-----------------------------------------------------------------------------
(* Properties of utils.fetch, checked under SpecFetch *)

\* A call of fetch begins in this step.
FetchStarts == fetch_call.pc /= "request" /\ fetch_call' /= fetch_call

\* The web request of a call ends in this step.
FetchRequests == fetch_call.pc = "request" /\ fetch_call'.pc = "done"

\* The cache file of url u is the same before and after the step.
SameFile(u) ==
    /\ u \in DOMAIN cache' <=> u \in DOMAIN cache
    /\ u \in DOMAIN cache => cache'[u] = cache[u]

\* The cache file of url u is younger than CACHE_TIME.
Young(u) == u \in DOMAIN cache /\ clock - cache[u].mtime < CACHE_TIME

\* The cache file of url u has reached the age CACHE_TIME.
Expired(u) == u \in DOMAIN cache /\ clock - cache[u].mtime >= CACHE_TIME

\* C21: fetch(url) with use_cache true returns the stored text (the text of
\* the web response last received for the url), without a web request and
\* without changing the cache, whenever a cache entry of the url exists and
\* is younger than CACHE_TIME, whatever the web answers now; and a fetch of
\* one url never changes the cache entry of another.
C21_YoungEntryIsReturned ==
    [][/\ (FetchStarts /\ fetch_call'.use_cache /\ Young(fetch_call'.url)) =>
              /\ fetch_call'.pc = "done"
              /\ ~fetch_call'.requested
              /\ fetch_call'.result = Returned(fetched[fetch_call'.url].text)
              /\ cache' = cache
       /\ \A u \in Urls \ {fetch_call'.url} : SameFile(u)
    ]_vars

\* C21 witness: a fetch has returned the stored text of a url without a web
\* request, while the web answers something else for it, and after the other
\* url was fetched from the web in between.
C21_Witness ==
    /\ fetch_call.pc = "done"
    /\ fetch_call.use_cache
    /\ fetch_call.found = "young"
    /\ ~fetch_call.requested
    /\ fetch_call.result = Returned(<<233, 33>>)
    /\ web[fetch_call.url] = Returned(<<100>>)
    /\ \E v \in Urls \ {fetch_call.url} :
          /\ v \in DOMAIN fetched
          /\ fetched[v].time > fetched[fetch_call.url].time
          /\ fetched[v].text = <<100>>

\* C22: when the entry has reached the age CACHE_TIME or use_cache is false,
\* fetch(url) asks the web, and when the web answers it returns that answer
\* and stores it as the cache entry of the url; a fetch with use_cache true
\* that begins less than CACHE_TIME after the answer was received returns
\* that answer.
C22_WebResponseIsReturnedAndStored ==
    [][/\ (FetchStarts /\ (~fetch_call'.use_cache \/ Expired(fetch_call'.url))) =>
              fetch_call'.pc = "request"
       /\ (FetchRequests /\ web[fetch_call.url].kind = "return") =>
              /\ fetch_call'.result = web[fetch_call.url]
              /\ fetch_call.url \in DOMAIN cache'
              /\ cache'[fetch_call.url] =
                    [bytes |-> encode(web[fetch_call.url].value), mtime |-> clock]
       /\ (/\ FetchStarts
           /\ fetch_call'.use_cache
           /\ fetch_call'.url \in DOMAIN fetched
           /\ clock - fetched[fetch_call'.url].time < CACHE_TIME) =>
              fetch_call'.result = Returned(fetched[fetch_call'.url].text)
    ]_vars

\* C22 witness: a fetch that found an expired entry has returned and stored
\* what the web answers.
C22_Witness ==
    /\ fetch_call.pc = "done"
    /\ fetch_call.found = "expired"
    /\ fetch_call.use_cache
    /\ fetch_call.requested
    /\ fetch_call.result = Returned(<<233, 33>>)
    /\ cache[fetch_call.url] = [bytes |-> <<195, 169, 33>>, mtime |-> clock]

\* C30: a fetch that finds an expired cache entry deletes it before it asks
\* the web; when the web request fails the error reaches the caller and no
\* entry is written, so that no entry of the url remains; a cache entry of
\* a url is written only by a fetch of that url whose web request succeeded,
\* and holds that answer.
C30_ExpiredEntryIsDeletedFirst ==
    [][/\ (FetchStarts /\ fetch_call'.use_cache /\ Expired(fetch_call'.url)) =>
              /\ fetch_call'.url \notin DOMAIN cache'
              /\ fetch_call'.pc = "request"
              /\ fetch_call'.result = NoCall
       /\ (FetchRequests /\ web[fetch_call.url].kind = "raise") =>
              /\ fetch_call'.result = web[fetch_call.url]
              /\ cache' = cache
              /\ fetch_call.found = "expired" /\ fetch_call.use_cache =>
                    fetch_call.url \notin DOMAIN cache'
       /\ \A u \in Urls :
              (u \in DOMAIN cache' /\ ~SameFile(u)) =>
                  /\ FetchRequests
                  /\ u = fetch_call.url
                  /\ web[u].kind = "return"
                  /\ cache'[u].bytes = encode(web[u].value)
    ]_vars

\* C30 witness: a fetch that found an expired entry has raised the error of
\* its web request, and the url has no cache entry any more.
C30_Witness ==
    /\ fetch_call.pc = "done"
    /\ fetch_call.found = "expired"
    /\ fetch_call.use_cache
    /\ fetch_call.result = Raised("ConnectionError")
    /\ fetch_call.url \notin DOMAIN cache
    /\ fetch_call.url \in DOMAIN fetched

-----------------------------------------------------------------------------
(* Properties of ClimateAPI and IndicatorAPI, checked under SpecApi *)

\* C23: ClimateAPI constructed with a subclass of ClimateDataset has that
\* class as the wrapper of what get_instrumental returns; with any other
\* argument (a class that is no subclass, a value that is no class, nothing)
\* the construction does not raise and the wrapper is ClimateDataset.
C23_SubclassBecomesTheWrapper ==
    capi.made =>
        LET wrapper == IF capi.class_.is_class /\ "ClimateDataset" \in capi.class_.bases
                       THEN capi.class_.name ELSE "ClimateDataset"
        IN  /\ capi.exc = ""
            /\ capi.dataset_class = wrapper
            /\ gi_call.result.kind = "return" => gi_call.result.value.class = wrapper

\* C23 witness: get_instrumental of an API constructed with the subclass has
\* returned responses wrapped in the subclass.
C23_Witness ==
    /\ capi.made
    /\ capi.class_.name = "DummyClimateSubclass"
    /\ gi_call.result.kind = "return"
    /\ gi_call.result.value.class = "DummyClimateSubclass"
    /\ gi_call.result.value.keys /= {}

\* The number of data types and of intervals a get_instrumental call asks
\* for: those given, or the two defaults each.
TypesAsked == IF gi_call.data_types.list = <<>> THEN 2 ELSE Len(gi_call.data_types.list)

IntervalsAsked == IF gi_call.intervals.list = <<>> THEN 2 ELSE Len(gi_call.intervals.list)

\* The locations that name a country or a basin.
KnownLocations == {<<"S", "i">>, <<"1">>}

\* C29: during get_instrumental, pages is |locations| x |data_types| x
\* |intervals| of the call; current_page starts at 0, grows by exactly one
\* per request and never exceeds pages; on return it equals pages; at a
\* request for an invalid location the call raises ValueError with
\* current_page at the number of that request, and returns no dataset.
C29_ProgressCountsRequests ==
    [][/\ gi_call'.pc /= "idle" =>
              /\ capi'.pages = Len(gi_call'.locations) * TypesAsked' * IntervalsAsked'
              /\ 0 <= capi'.current_page
              /\ capi'.current_page <= capi'.pages
       /\ (gi_call.pc = "idle" /\ gi_call'.pc /= "idle") => capi'.current_page = 0
       /\ (gi_call.pc = "loop" /\ gi_call' /= gi_call) =>
              capi'.current_page = capi.current_page + 1
       /\ gi_call'.result.kind = "return" => capi'.current_page = capi'.pages
       /\ (gi_call.pc = "loop" /\ gi_call' /= gi_call
             /\ Head(gi_call.todo)[1] \notin KnownLocations) =>
              LET first == CHOOSE l \in 1..Len(gi_call.locations) :
                               /\ gi_call.locations[l] \notin KnownLocations
                               /\ \A k \in 1..(l - 1) : gi_call.locations[k] \in KnownLocations
              IN  /\ gi_call'.result = Raised("ValueError")
                  /\ capi'.current_page = (first - 1) * TypesAsked * IntervalsAsked + 1
    ]_vars

\* C29 witness: the third of four requests was for an invalid location; the
\* call has raised ValueError with current_page at 3.
C29_Witness ==
    /\ gi_call.pc = "done"
    /\ gi_call.result = Raised("ValueError")
    /\ gi_call.locations = <<<<"S", "i">>, <<"X", "Y">>>>
    /\ capi.pages = 4
    /\ capi.current_page = 3
    /\ Cardinality(gi_call.stored) = 2

\* The lower-cased ids a get_dataset call asked for.
IdsAsked == {Lower(ia_call.ids[k]) : k \in 1..Len(ia_call.ids)}

\* The indicators whose _get_indicator_data call gave its data.
IdsFetched == {i \in IdsAsked : ia_call.answers.indicator[i] \in {"page", "pages"}}

\* C24: IndicatorAPI.get_dataset never raises because an indicator fetch
\* failed (it raises only when the fetch of the countries did): every
\* indicator whose fetch raises is left out of api_responses, and every
\* indicator whose fetch succeeded, before or after a failing one, is
\* present, once, under its lower-cased id.
C24_FailedIndicatorsAreLeftOut ==
    ia_call.op = "get_dataset" =>
        /\ ia_result.kind \in {"return", "raise"}
        /\ ia_result.kind = "raise" =>
              ia_call.countries /\ ia_call.answers.countries = "no answer"
        /\ ia_result.kind = "return" =>
              /\ {ia_result.value[k].indicator : k \in 1..Len(ia_result.value)} = IdsFetched
              /\ Len(ia_result.value) = Cardinality(IdsFetched)

\* C24 witness: three indicators were asked for, one of them in capitals;
\* the second fetch raised, the first and the third gave data, and the call
\* returned the two.
C24_Witness ==
    /\ ia_call.op = "get_dataset"
    /\ ia_result.kind = "return"
    /\ Len(ia_call.order) = 3
    /\ \E k \in 1..Len(ia_call.ids) : Lower(ia_call.ids[k]) # ia_call.ids[k]
    /\ ia_call.answers.indicator[ia_call.order[1]] = "page"
    /\ ia_call.answers.indicator[ia_call.order[2]] = "no answer"
    /\ ia_call.answers.indicator[ia_call.order[3]] = "pages"
    /\ Len(ia_result.value) = 2

\* C27: _filter_indicators returns exactly the indicators whose lower-cased
\* id is in the featured set for the filter 'featured' and in the fetched
\* common set for the filter 'common' (the name compared without regard to
\* case), and all indicators unchanged for every other filter value,
\* including None.
C27_FilterReturnsForEveryFilter ==
    ia_call.op = "filter" =>
        LET name == IF ia_call.filter_.t = "str" THEN Lower(ia_call.filter_.s) ELSE <<>>
            featured == {<<"a", "g", ".", "c", "o", "n", ".", "f", "e", "r", "t", ".", "z", "s">>}
            common == {Lower(ia_call.page[k]) :
                          k \in {j \in 1..Len(ia_call.page) :
                                   Len(ia_call.page[j]) >= 3 /\ " " \notin Range(ia_call.page[j])}}
        IN  ia_result =
               Returned(IF name = <<"f", "e", "a", "t", "u", "r", "e", "d">>
                        THEN SelectSeq(ia_call.ids, LAMBDA i : Lower(i) \in featured)
                        ELSE IF name = <<"c", "o", "m", "m", "o", "n">>
                        THEN SelectSeq(ia_call.ids, LAMBDA i : Lower(i) \in common)
                        ELSE ia_call.ids)

====
